---- MODULE Spec2Model ----
\* A model of acts/controllers/android_device.py: one AndroidDevice object, the
\* adb server, the sl4a agent and the host processes it talks to.
\*
\* Every method of AndroidDevice is an operator from one state record to the SET
\* of states the method can end in: an external command (adb, sl4a, a
\* subprocess) either succeeds or raises, and what it returns is chosen by the
\* environment.  A public method called by a test is one action of Next.
EXTENDS Integers, Sequences, FiniteSets, TLC

\* ---------------------------------------------------------------- bounds --
MaxPort == 2        \* host ports 1..MaxPort can be forwarded
MaxCaught == 1      \* exceptions one public call catches and survives
MaxPolls == 1       \* getprop polls before wait_for_boot_completion times out
MaxConns == 2       \* connections of one registry entry (SpecTS)
MaxTime == 2        \* timestamps 0..MaxTime of log lines and windows
MaxLines == 3       \* lines of the capture file
MaxTag == 4         \* characters of a tag or test name
MAX_FILENAME_LEN == 11  \* utils.MAX_FILENAME_LEN, the budget of a file name

None == 0           \* Python's None (falsy, like h_port 0 and an empty path)

Ports == 1..MaxPort
\* The session uids the agent issues: one digit and two digits.
UIDs == {9, 10}
Pids == 1..2
Cids == 1..4

VARIABLES
    h_port,                 \* self.h_port: host port or None
    droid_sessions,         \* self._droid_sessions: uid -> list of droids
    event_dispatchers,      \* self._event_dispatchers: ed_key -> dispatcher
    adb_logcat_process,     \* self.adb_logcat_process: pid or None
    adb_logcat_file_path,   \* self.adb_logcat_file_path: file name or None
    forwards,               \* adb server: host ports with an active mapping
    procs,                  \* host: running logcat subprocesses of the device
    product,                \* device: its product name (getprop), lower case
    logcat_file,            \* host: the lines of the file at adb_logcat_file_path
    sim,                    \* a BaseSimulation object and its callbox and phone
    call                    \* the public call that just ended: op, arg, exc, ret, log

\* No BaseSimulation object exists.
NoSim == <<>>

vars == <<h_port, droid_sessions, event_dispatchers, adb_logcat_process,
          adb_logcat_file_path, forwards, procs, product, logcat_file, sim,
          call>>

\* ------------------------------------------------------------- exceptions --
NoExc == "none"
AndroidDeviceError == "AndroidDeviceError"
DoesNotExistError == "DoesNotExistError"
SL4AException == "SL4AException"
AdbError == "AdbError"
TimeoutError == "TimeoutError"
AttributeError == "AttributeError"
ExternalError == "Error"

\* ------------------------------------------------------- strings and keys --
\* str(n) for n >= 0, as the sequence of its decimal digits' character codes.
RECURSIVE str(_)
str(n) == IF n < 10 THEN <<48 + n>> ELSE str(n \div 10) \o <<48 + (n % 10)>>

\* self.serial, one character.
serial == <<83>>

\* ed_key = self.serial + str(uid)
ed_key(uid) == serial \o str(uid)

\* Python's < on strings: lexicographic on character codes.
RECURSIVE StrLess(_, _)
StrLess(a, b) ==
    IF b = <<>> THEN FALSE
    ELSE IF a = <<>> THEN TRUE
    ELSE IF Head(a) # Head(b) THEN Head(a) < Head(b)
    ELSE StrLess(Tail(a), Tail(b))

\* sorted(keys)[0] for a non-empty set of strings.
FirstKey(keys) == CHOOSE k \in keys : \A j \in keys \ {k} : StrLess(k, j)

\* sorted(keys) for a set of strings, as a sequence.
RECURSIVE SortedStrs(_)
SortedStrs(S) ==
    IF S = {} THEN <<>>
    ELSE <<FirstKey(S)>> \o SortedStrs(S \ {FirstKey(S)})

\* sorted(keys) for a set of integers, as a sequence.
RECURSIVE SortedInts(_)
SortedInts(S) ==
    IF S = {} THEN <<>>
    ELSE LET m == CHOOSE x \in S : \A y \in S : x <= y
         IN <<m>> \o SortedInts(S \ {m})

\* str.replace(old, ""): every occurrence of old is taken out, left to right.
RECURSIVE Remove(_, _)
Remove(text, old) ==
    IF Len(text) < Len(old) THEN text
    ELSE IF SubSeq(text, 1, Len(old)) = old
         THEN Remove(SubSeq(text, Len(old) + 1, Len(text)), old)
         ELSE <<Head(text)>> \o Remove(Tail(text), old)

\* text[:n], for negative n too: all but the last -n characters.
Prefix(text, n) ==
    IF n >= 0
    THEN SubSeq(text, 1, IF n < Len(text) THEN n ELSE Len(text))
    ELSE SubSeq(text, 1, Len(text) + n)

\* "adblog,"  ","  ".txt"  ".zip"
adblog == <<97, 100, 98, 108, 111, 103, 44>>
comma == <<44>>
txt == <<46, 116, 120, 116>>
zip == <<46, 122, 105, 112>>

\* The product names of the devices: "m" and "mmm".
Models == {<<109>>, <<109, 109, 109>>}
DefaultProduct == <<109>>

\* self.adb_logcat_file_path of a device that never started a capture (None).
NoPath == <<>>

\* f_name = "adblog,{},{}.txt".format(self.model, self.serial); the directory
\* it is joined to is left out, cat_adb_log takes the basename again.
f_name(m) == adblog \o m \o comma \o serial \o txt

Drop(f, k) == [x \in DOMAIN f \ {k} |-> f[x]]
Put(f, k, v) == [x \in DOMAIN f \cup {k} |-> IF x = k THEN v ELSE f[x]]

\* ------------------------------------------------- the outcome-set monad --
Ev(c, a, ok) == [c |-> c, a |-> a, ok |-> ok]

\* A droid is a connection to the agent: the session uid it talks to, its own
\* identity cid, and sess, the cid of the connection that opened its session.
NoDroid == [uid |-> None, cid |-> None, sess |-> None]
NoRet == [droid |-> NoDroid, ed |-> <<>>]

\* A file written on the host: the last component of its path and its lines.
NoFile == [name |-> <<>>, lines |-> <<>>]

\* Run F on every state of S that carries no exception.
Bind(S, F(_)) == UNION {IF s.exc = NoExc THEN F(s) ELSE {s} : s \in S}

\* try: ... except: H  (H runs with the exception cleared).  A call catches
\* at most MaxCaught exceptions: runs with more are left out.
Catch(S, H(_)) ==
    UNION {IF s.exc = NoExc THEN {s}
           ELSE IF s.ncaught < MaxCaught
                THEN H([s EXCEPT !.exc = NoExc, !.ncaught = @ + 1])
                ELSE {}
           : s \in S}

Raise(s, e) == {[s EXCEPT !.exc = e]}

Logged(s, c, a, ok) == [s EXCEPT !.log = Append(@, Ev(c, a, ok))]

\* The failing outcome of external command c: it raises err.
Failing(s, c, a, err) == {[Logged(s, c, a, FALSE) EXCEPT !.exc = err]}

\* External command c without an effect on the modelled state.
Ext(s, c, a, err) == {Logged(s, c, a, TRUE)} \cup Failing(s, c, a, err)

\* External command c that returns a value chosen by the environment from vals
\* (left in r_int), or raises err.
Query(s, c, a, vals, err) ==
    {[Logged(s, c, v, TRUE) EXCEPT !.r_int = v] : v \in vals}
        \cup (IF err = NoExc THEN {} ELSE Failing(s, c, a, err))

\* ------------------------------------------------------------ properties --
\* list_fastboot_devices(): 1 when self.serial is listed, else 0.
is_bootloader(s) == Query(s, "fastboot.devices", 0, {0, 1}, ExternalError)

is_adb_logcat_on(s) == s.adb_logcat_process # None

\* self.model: the product name read with getprop over adb, left in r_str.
model(s) ==
    {[Logged(s, "adb.shell getprop product", 0, TRUE) EXCEPT !.r_str = s.product]}
        \cup Failing(s, "adb.shell getprop product", 0, AdbError)

\* self.ed: the dispatcher under the first key in string order, None if none.
ed(s) ==
    IF DOMAIN s.event_dispatchers = {} THEN <<>>
    ELSE FirstKey(DOMAIN s.event_dispatchers)

\* self.droid: the primary connection of the first session in uid order.
droid(s) ==
    IF DOMAIN s.droid_sessions = {} THEN NoDroid
    ELSE s.droid_sessions[SortedInts(DOMAIN s.droid_sessions)[1]][1]

\* self.droids: the primary connection of every session, in uid order.
droids(s) ==
    LET keys == SortedInts(DOMAIN s.droid_sessions)
    IN [i \in DOMAIN keys |-> s.droid_sessions[keys[i]][1]]

\* self.eds: the dispatchers, in the string order of their keys.
eds(s) ==
    LET keys == SortedStrs(DOMAIN s.event_dispatchers)
    IN [i \in DOMAIN keys |-> s.event_dispatchers[keys[i]]]

\* ----------------------------------------------------------- log capture --
\* utils.start_standing_subprocess(cmd): a new process runs, its handle is
\* returned in r_int.
start_standing_subprocess(s) ==
    (IF Pids \ s.procs = {} THEN {}
     ELSE LET p == CHOOSE x \in Pids \ s.procs : \A y \in Pids \ s.procs : x <= y
          IN {[Logged(s, "start_standing_subprocess", p, TRUE)
                  EXCEPT !.procs = @ \cup {p}, !.r_int = p]})
        \cup Failing(s, "start_standing_subprocess", 0, ExternalError)

\* utils.stop_standing_subprocess(p): the process is killed.
stop_standing_subprocess(s, p) ==
    {[Logged(s, "stop_standing_subprocess", p, TRUE) EXCEPT !.procs = @ \ {p}]}
        \cup Failing(s, "stop_standing_subprocess", p, ExternalError)

\* start_adb_logcat without its is_adb_logcat_on check.
start_adb_logcat_unguarded(s) ==
    Bind(Bind(Bind(Bind(
        Ext(s, "adb.shell logpersist.start", 0, AdbError),
        model),
        LAMBDA t : Ext(t, "create_dir", 0, ExternalError)),
        start_standing_subprocess),
        LAMBDA t : {[t EXCEPT !.adb_logcat_process = t.r_int,
                              !.adb_logcat_file_path = f_name(t.r_str)]})

\* start_adb_logcat dropping the record of the capture that blocks it.
start_adb_logcat_forgetting(s) ==
    IF is_adb_logcat_on(s)
    THEN Raise([s EXCEPT !.adb_logcat_process = None], AndroidDeviceError)
    ELSE start_adb_logcat_unguarded(s)

start_adb_logcat(s) ==
    IF is_adb_logcat_on(s) THEN Raise(s, AndroidDeviceError)
    ELSE Bind(Bind(Bind(Bind(
            Ext(s, "adb.shell logpersist.start", 0, AdbError),
            model),
            LAMBDA t : Ext(t, "create_dir", 0, ExternalError)),
            start_standing_subprocess),
            LAMBDA t : {[t EXCEPT !.adb_logcat_process = t.r_int,
                                  !.adb_logcat_file_path = f_name(t.r_str)]})

\* stop_adb_logcat keeping the handle of the process it stopped.
stop_adb_logcat_keeping_handle(s) ==
    IF ~is_adb_logcat_on(s) THEN Raise(s, AndroidDeviceError)
    ELSE stop_standing_subprocess(s, s.adb_logcat_process)

\* stop_adb_logcat clearing the path of the capture file as well.
stop_adb_logcat_clearing_path(s) ==
    IF ~is_adb_logcat_on(s) THEN Raise(s, AndroidDeviceError)
    ELSE Bind(stop_standing_subprocess(s, s.adb_logcat_process),
              LAMBDA t : {[t EXCEPT !.adb_logcat_process = None,
                                    !.adb_logcat_file_path = NoPath]})

stop_adb_logcat(s) ==
    IF ~is_adb_logcat_on(s) THEN Raise(s, AndroidDeviceError)
    ELSE Bind(stop_standing_subprocess(s, s.adb_logcat_process),
              LAMBDA t : {[t EXCEPT !.adb_logcat_process = None]})

\* -------------------------------------------------------------- sessions --
\* The identity of a new connection to session uid: the first id that no droid
\* of that uid held by the device has or refers to.
new_cid(s, uid) ==
    LET held == (IF uid \in DOMAIN s.droid_sessions
                 THEN {s.droid_sessions[uid][i] : i \in DOMAIN s.droid_sessions[uid]}
                 ELSE {})
                \cup (IF ed_key(uid) \in DOMAIN s.event_dispatchers
                      THEN {s.event_dispatchers[ed_key(uid)].droid}
                      ELSE {})
        used == {d.cid : d \in held} \cup {d.sess : d \in held}
    IN CHOOSE c \in Cids \ used : \A x \in Cids \ used : c <= x

\* android.Android(port=h_port): the agent opens a session and issues its uid.
Android_initiate(s) ==
    {[Logged(s, "Android initiate", u, TRUE)
         EXCEPT !.r_droid = [uid |-> u, cid |-> new_cid(s, u), sess |-> new_cid(s, u)]]
        : u \in UIDs}
        \cup Failing(s, "Android initiate", 0, ExternalError)

\* android.Android(cmd='continue', uid=session_id, port=h_port): a further
\* connection to the session that session_id names.
Android_continue(s, session_id) ==
    {[Logged(s, "Android continue", session_id, TRUE)
         EXCEPT !.r_droid = [uid |-> session_id, cid |-> new_cid(s, session_id),
                             sess |-> s.droid_sessions[session_id][1].sess]]}
        \cup Failing(s, "Android continue", session_id, ExternalError)

\* start_new_session without its check for an existing uid.
start_new_session_overwriting(s) ==
    Bind(Android_initiate(s),
         LAMBDA t : {[t EXCEPT !.droid_sessions =
                                  Put(@, t.r_droid.uid, <<t.r_droid>>)]})

start_new_session(s) ==
    Bind(Android_initiate(s),
         LAMBDA t :
            IF t.r_droid.uid \in DOMAIN t.droid_sessions
            THEN Raise(t, SL4AException)
            ELSE {[t EXCEPT !.droid_sessions =
                               Put(@, t.r_droid.uid, <<t.r_droid>>)]})

\* add_new_connection_to_session asking the agent before it looks up the
\* session.
add_new_connection_to_session_connecting_first(s, session_id) ==
    IF session_id \notin DOMAIN s.droid_sessions
    THEN Failing(s, "Android continue", session_id, DoesNotExistError)
    ELSE Android_continue(s, session_id)

add_new_connection_to_session(s, session_id) ==
    IF session_id \notin DOMAIN s.droid_sessions
    THEN Raise(s, DoesNotExistError)
    ELSE Android_continue(s, session_id)

\* get_dispatcher making a dispatcher on every call.
get_dispatcher_always_new(s, d) ==
    LET k == ed_key(d.uid)
    IN Bind(add_new_connection_to_session(s, d.uid),
            LAMBDA t : {[t EXCEPT
                !.event_dispatchers =
                    Put(@, k, [droid |-> t.r_droid, started |-> FALSE]),
                !.r_ed = k]})

\* get_dispatcher(droid): the dispatcher's key is left in r_ed.
get_dispatcher(s, d) ==
    LET k == ed_key(d.uid)
    IN IF k \in DOMAIN s.event_dispatchers
       THEN {[s EXCEPT !.r_ed = k]}
       ELSE Bind(add_new_connection_to_session(s, d.uid),
                 LAMBDA t : {[t EXCEPT
                    !.event_dispatchers =
                        Put(@, k, [droid |-> t.r_droid, started |-> FALSE]),
                    !.r_ed = k]})

\* ed.start() on the dispatcher under key k (k = <<>> is Python's None).
ed_start(s, k) ==
    IF k = <<>> THEN Raise(s, AttributeError)
    ELSE {[Logged(s, "ed.start", 0, TRUE)
              EXCEPT !.event_dispatchers[k].started = TRUE]}
            \cup Failing(s, "ed.start", 0, ExternalError)

\* for droid in droids: droid.closeSl4aSession(); droid.close()
RECURSIVE close_droids(_, _)
close_droids(s, conns) ==
    IF conns = <<>> THEN {s}
    ELSE Bind(Bind(
            Ext(s, "closeSl4aSession", Head(conns).cid, ExternalError),
            LAMBDA t : Ext(t, "close", Head(conns).cid, ExternalError)),
            LAMBDA t : close_droids(t, Tail(conns)))

\* terminate_session leaving the dispatcher of the session where it is.
terminate_session_keeping_dispatcher(s, session_id) ==
    IF session_id \in DOMAIN s.droid_sessions
    THEN Bind(close_droids(s, s.droid_sessions[session_id]),
              LAMBDA t : {[t EXCEPT !.droid_sessions = Drop(@, session_id)]})
    ELSE {s}

terminate_session(s, session_id) ==
    LET k == ed_key(session_id)
    IN Bind(
        IF session_id \in DOMAIN s.droid_sessions
        THEN Bind(close_droids(s, s.droid_sessions[session_id]),
                  LAMBDA t : {[t EXCEPT !.droid_sessions = Drop(@, session_id)]})
        ELSE {s},
        LAMBDA t :
            IF k \in DOMAIN t.event_dispatchers
            THEN Bind(Ext(t, "ed.clean_up", session_id, ExternalError),
                      LAMBDA v : {[v EXCEPT !.event_dispatchers = Drop(@, k)]})
            ELSE {t})

\* self.adb.forward("--remove tcp:%d" % port): adb removes the mapping of the
\* port; it reports an error when the port has none.
forward_remove(s, port) ==
    (IF port \in s.forwards
     THEN {[Logged(s, "adb.forward --remove", port, TRUE)
              EXCEPT !.forwards = @ \ {port}]}
     ELSE {})
        \cup Failing(s, "adb.forward --remove", port, AdbError)

\* The loop of terminate_all_sessions without its try/except.
RECURSIVE terminate_each_propagating(_, _)
terminate_each_propagating(s, session_ids) ==
    IF session_ids = <<>> THEN {s}
    ELSE Bind(terminate_session(
                  Logged(s, "terminate_session", Head(session_ids), TRUE),
                  Head(session_ids)),
              LAMBDA t : terminate_each_propagating(t, Tail(session_ids)))

\* for session_id in session_ids: try terminate_session except: log
RECURSIVE terminate_each(_, _)
terminate_each(s, session_ids) ==
    IF session_ids = <<>> THEN {s}
    ELSE Bind(
            Catch(terminate_session(
                      Logged(s, "terminate_session", Head(session_ids), TRUE),
                      Head(session_ids)),
                  LAMBDA t : {Logged(t, "log.exception", Head(session_ids), TRUE)}),
            LAMBDA t : terminate_each(t, Tail(session_ids)))

\* terminate_all_sessions removing the forwarding with no session registered.
terminate_all_sessions_always_removing(s) ==
    Bind(terminate_each(s, SortedInts(DOMAIN s.droid_sessions)),
         LAMBDA t :
            IF t.h_port # None
            THEN Bind(forward_remove(t, t.h_port),
                      LAMBDA v : {[v EXCEPT !.h_port = None]})
            ELSE {t})

terminate_all_sessions(s) ==
    IF DOMAIN s.droid_sessions = {} THEN {s}
    ELSE Bind(terminate_each(s, SortedInts(DOMAIN s.droid_sessions)),
              LAMBDA t :
                IF t.h_port # None
                THEN Bind(forward_remove(t, t.h_port),
                          LAMBDA v : {[v EXCEPT !.h_port = None]})
                ELSE {t})

\* ------------------------------------------------------- port forwarding --
\* adb.is_port_available(port): binding the port fails while the adb server
\* listens on it for a mapping; another program may hold it as well.
is_port_available(s, port) ==
    Query(s, "is_port_available", port,
          IF port \in s.forwards THEN {0} ELSE {0, 1}, NoExc)

\* adb.get_available_host_port(): some port that is_port_available.
get_available_host_port(s) ==
    {[Logged(s, "get_available_host_port", p, TRUE) EXCEPT !.r_int = p]
        : p \in Ports \ s.forwards}

\* self.adb.tcp_forward(host_port, device_port)
tcp_forward(s, port) ==
    {[Logged(s, "adb.tcp_forward", port, TRUE) EXCEPT !.forwards = @ \cup {port}]}
        \cup Failing(s, "adb.tcp_forward", port, AdbError)

\* get_droid trying again without restarting the agent.
get_droid_not_restarting(s, handle_event) ==
    LET pick(t) == Bind(get_available_host_port(t),
                        LAMBDA v : {[v EXCEPT !.h_port = v.r_int]})
    IN Bind(Bind(Bind(
        IF s.h_port = None THEN pick(s)
        ELSE Bind(is_port_available(s, s.h_port),
                  LAMBDA t : IF t.r_int = 0 THEN pick(t) ELSE {t}),
        LAMBDA t : tcp_forward(t, t.h_port)),
        LAMBDA t : Catch(start_new_session(t), start_new_session)),
        LAMBDA t :
            IF handle_event
            THEN Bind(get_dispatcher(t, t.r_droid),
                      LAMBDA v : {[v EXCEPT !.ret = [droid |-> t.r_droid,
                                                     ed |-> v.r_ed]]})
            ELSE {[t EXCEPT !.ret = [droid |-> t.r_droid, ed |-> <<>>]]})

get_droid(s, handle_event) ==
    LET pick(t) == Bind(get_available_host_port(t),
                        LAMBDA v : {[v EXCEPT !.h_port = v.r_int]})
    IN Bind(Bind(Bind(
        IF s.h_port = None THEN pick(s)
        ELSE Bind(is_port_available(s, s.h_port),
                  LAMBDA t : IF t.r_int = 0 THEN pick(t) ELSE {t}),
        LAMBDA t : tcp_forward(t, t.h_port)),
        LAMBDA t : Catch(start_new_session(t),
                         LAMBDA v : Bind(Ext(v, "adb.start_sl4a", 0, AdbError),
                                         start_new_session))),
        LAMBDA t :
            IF handle_event
            THEN Bind(get_dispatcher(t, t.r_droid),
                      LAMBDA v : {[v EXCEPT !.ret = [droid |-> t.r_droid,
                                                     ed |-> v.r_ed]]})
            ELSE {[t EXCEPT !.ret = [droid |-> t.r_droid, ed |-> <<>>]]})

\* ------------------------------------------------------------- lifecycle --
\* except: self.log.exception(msg); raise
log_and_reraise(S, msg) ==
    {IF s.exc = NoExc THEN s ELSE Logged(s, msg, 0, TRUE) : s \in S}

\* start_services going on to sl4a after start_adb_logcat raised.
start_services_swallowing(s, skip_sl4a) ==
    Bind({[t EXCEPT !.exc = NoExc] :
            t \in log_and_reraise(start_adb_logcat(s),
                                  "log Failed to start adb logcat!")},
         LAMBDA t :
            IF ~skip_sl4a
            THEN log_and_reraise(
                    Bind(get_droid(t, TRUE), LAMBDA v : ed_start(v, ed(v))),
                    "log Failed to start sl4a!")
            ELSE {t})

\* start_services stopping the capture again when sl4a fails to start.
start_services_rolling_back(s, skip_sl4a) ==
    Bind(log_and_reraise(start_adb_logcat(s), "log Failed to start adb logcat!"),
         LAMBDA t :
            IF ~skip_sl4a
            THEN UNION {IF v.exc = NoExc THEN {v}
                        ELSE {[w EXCEPT !.exc = v.exc] :
                                w \in stop_adb_logcat([v EXCEPT !.exc = NoExc])}
                        : v \in log_and_reraise(
                                Bind(get_droid(t, TRUE),
                                     LAMBDA v : ed_start(v, ed(v))),
                                "log Failed to start sl4a!")}
            ELSE {t})

start_services(s, skip_sl4a) ==
    Bind(log_and_reraise(start_adb_logcat(s), "log Failed to start adb logcat!"),
         LAMBDA t :
            IF ~skip_sl4a
            THEN log_and_reraise(
                    Bind(get_droid(t, TRUE), LAMBDA v : ed_start(v, ed(v))),
                    "log Failed to start sl4a!")
            ELSE {t})

stop_services(s) ==
    Bind(IF s.adb_logcat_process # None THEN stop_adb_logcat(s) ELSE {s},
         terminate_all_sessions)

clean_up(s) ==
    Bind(stop_services(s),
         LAMBDA t : IF t.h_port # None THEN forward_remove(t, t.h_port) ELSE {t})

root_adb(s) ==
    Bind(Ext(s, "adb.root", 0, AdbError),
         LAMBDA t : Ext(t, "adb.wait_for_device", 0, AdbError))

\* while True: getprop sys.boot_completed; '1' returns, anything else and an
\* AdbError sleep 5 s and poll again; utils.timeout ends the wait after 15 min
\* (here: after MaxPolls polls that did not read '1').
RECURSIVE poll_boot_completed(_, _)
poll_boot_completed(s, n) ==
    IF n = 0
    THEN Raise(Logged(s, "timeout", 0, FALSE), TimeoutError)
    ELSE {Logged(s, "getprop sys.boot_completed", 1, TRUE)}
            \cup UNION {poll_boot_completed(t, n - 1) :
                    t \in {Logged(s, "getprop sys.boot_completed", 0, TRUE),
                           Logged(s, "getprop sys.boot_completed", 0, FALSE)}}

\* wait_for_boot_completion returning when a poll fails with an adb error.
wait_for_boot_completion_ending_on_error(s) ==
    Bind(Ext(s, "adb.wait_for_device", 0, AdbError),
         LAMBDA t : {Logged(t, "getprop sys.boot_completed", 1, TRUE),
                     Logged(t, "getprop sys.boot_completed", 0, FALSE)}
                    \cup poll_boot_completed(
                            Logged(t, "getprop sys.boot_completed", 0, TRUE),
                            MaxPolls - 1))

wait_for_boot_completion(s) ==
    Bind(Ext(s, "adb.wait_for_device", 0, AdbError),
         LAMBDA t : poll_boot_completed(t, MaxPolls))

\* reboot negotiating the session before it waits for boot completion.
reboot_negotiating_early(s) ==
    Bind(is_bootloader(s),
         LAMBDA b :
            IF b.r_int = 1
            THEN Ext(b, "fastboot.reboot", 0, ExternalError)
            ELSE LET has_adb_log == is_adb_logcat_on(b)
                 IN Bind(Bind(Bind(Bind(Bind(Bind(Bind(
                        IF has_adb_log THEN stop_adb_logcat(b) ELSE {b},
                        terminate_all_sessions),
                        LAMBDA t : Ext(t, "adb.reboot", 0, AdbError)),
                        LAMBDA t : get_droid(t, TRUE)),
                        wait_for_boot_completion),
                        root_adb),
                        LAMBDA t : ed_start(t, t.ret.ed)),
                        LAMBDA t : IF has_adb_log THEN start_adb_logcat(t) ELSE {t}))

\* reboot without the restart of the capture it stopped.
reboot_capture_dropped(s) ==
    Bind(is_bootloader(s),
         LAMBDA b :
            IF b.r_int = 1
            THEN Ext(b, "fastboot.reboot", 0, ExternalError)
            ELSE LET has_adb_log == is_adb_logcat_on(b)
                 IN Bind(Bind(Bind(Bind(Bind(Bind(
                        IF has_adb_log THEN stop_adb_logcat(b) ELSE {b},
                        terminate_all_sessions),
                        LAMBDA t : Ext(t, "adb.reboot", 0, AdbError)),
                        wait_for_boot_completion),
                        root_adb),
                        LAMBDA t : get_droid(t, TRUE)),
                        LAMBDA t : ed_start(t, t.ret.ed)))

\* reboot returning the dispatcher without starting it.
reboot_not_starting(s) ==
    Bind(is_bootloader(s),
         LAMBDA b :
            IF b.r_int = 1
            THEN Ext(b, "fastboot.reboot", 0, ExternalError)
            ELSE LET has_adb_log == is_adb_logcat_on(b)
                 IN Bind(Bind(Bind(Bind(Bind(Bind(
                        IF has_adb_log THEN stop_adb_logcat(b) ELSE {b},
                        terminate_all_sessions),
                        LAMBDA t : Ext(t, "adb.reboot", 0, AdbError)),
                        wait_for_boot_completion),
                        root_adb),
                        LAMBDA t : get_droid(t, TRUE)),
                        LAMBDA t : IF has_adb_log THEN start_adb_logcat(t) ELSE {t}))

reboot(s) ==
    Bind(is_bootloader(s),
         LAMBDA b :
            IF b.r_int = 1
            THEN Ext(b, "fastboot.reboot", 0, ExternalError)
            ELSE LET has_adb_log == is_adb_logcat_on(b)
                 IN Bind(Bind(Bind(Bind(Bind(Bind(Bind(
                        IF has_adb_log THEN stop_adb_logcat(b) ELSE {b},
                        terminate_all_sessions),
                        LAMBDA t : Ext(t, "adb.reboot", 0, AdbError)),
                        wait_for_boot_completion),
                        root_adb),
                        LAMBDA t : get_droid(t, TRUE)),
                        LAMBDA t : ed_start(t, t.ret.ed)),
                        LAMBDA t : IF has_adb_log THEN start_adb_logcat(t) ELSE {t}))

\* ----------------------------------------------------------- cat_adb_log --
\* A line of the capture file: its text n (here the number of the line), the
\* timestamp ts its first characters read as, Invalid when they are no
\* timestamp, and nl, whether it ends with a newline.
Invalid == 0 - 1
Times == 0..MaxTime

\* acts_logger.is_valid_logline_timestamp(line_time)
is_valid_logline_timestamp(ts) == ts # Invalid

\* acts_logger.logline_timestamp_comparator(t1, t2): -1, 0 or 1.
logline_timestamp_comparator(t1, t2) ==
    IF t1 < t2 THEN 0 - 1 ELSE IF t1 > t2 THEN 1 ELSE 0

\* _is_timestamp_in_range with an end_time that is not part of the window.
_is_timestamp_in_range_exclusive(target, begin_time, end_time) ==
    LET low == logline_timestamp_comparator(begin_time, target) <= 0
        high == logline_timestamp_comparator(end_time, target) > 0
    IN low /\ high

_is_timestamp_in_range(target, begin_time, end_time) ==
    LET low == logline_timestamp_comparator(begin_time, target) <= 0
        high == logline_timestamp_comparator(end_time, target) >= 0
    IN low /\ high

\* The loop of cat_adb_log never leaving the file before its end.
RECURSIVE excerpt_lines_scanning_on(_, _, _, _)
excerpt_lines_scanning_on(lines, in_range, begin_time, end_time) ==
    IF lines = <<>> THEN <<>>
    ELSE LET line == Head(lines)
         IN IF ~is_valid_logline_timestamp(line.ts)
            THEN excerpt_lines_scanning_on(Tail(lines), in_range, begin_time, end_time)
            ELSE IF _is_timestamp_in_range(line.ts, begin_time, end_time)
            THEN <<[line EXCEPT !.nl = TRUE]>>
                    \o excerpt_lines_scanning_on(Tail(lines), TRUE, begin_time, end_time)
            ELSE excerpt_lines_scanning_on(Tail(lines), in_range, begin_time, end_time)

\* The loop of cat_adb_log leaving the file at a line without a valid
\* timestamp.
RECURSIVE excerpt_lines_ending_on_invalid(_, _, _, _)
excerpt_lines_ending_on_invalid(lines, in_range, begin_time, end_time) ==
    IF lines = <<>> THEN <<>>
    ELSE LET line == Head(lines)
         IN IF ~is_valid_logline_timestamp(line.ts)
            THEN <<>>
            ELSE IF _is_timestamp_in_range(line.ts, begin_time, end_time)
            THEN <<[line EXCEPT !.nl = TRUE]>>
                    \o excerpt_lines_ending_on_invalid(Tail(lines), TRUE, begin_time, end_time)
            ELSE IF in_range THEN <<>>
            ELSE excerpt_lines_ending_on_invalid(Tail(lines), in_range, begin_time, end_time)

\* The loop of cat_adb_log over the lines f.readline() returns: the lines it
\* writes, each with a newline at its end.
RECURSIVE excerpt_lines(_, _, _, _)
excerpt_lines(lines, in_range, begin_time, end_time) ==
    IF lines = <<>> THEN <<>>
    ELSE LET line == Head(lines)
         IN IF ~is_valid_logline_timestamp(line.ts)
            THEN excerpt_lines(Tail(lines), in_range, begin_time, end_time)
            ELSE IF _is_timestamp_in_range(line.ts, begin_time, end_time)
            THEN <<[line EXCEPT !.nl = TRUE]>>
                    \o excerpt_lines(Tail(lines), TRUE, begin_time, end_time)
            ELSE IF in_range THEN <<>>
            ELSE excerpt_lines(Tail(lines), in_range, begin_time, end_time)

\* The name of the excerpt file of cat_adb_log.
excerpt_name(tag, begin_time, path) ==
    LET base == Remove(Remove(path, adblog), txt)
        out_name == comma \o str(begin_time) \o comma \o base \o txt
        tag_len == MAX_FILENAME_LEN - Len(out_name)
    IN Prefix(tag, tag_len) \o out_name

cat_adb_log(s, tag, begin_time) ==
    IF s.adb_logcat_file_path = NoPath THEN Raise(s, AndroidDeviceError)
    ELSE Bind(Bind(Bind(Bind(
            Query(s, "get_log_line_timestamp", 0, Times, NoExc),
            LAMBDA t : Ext(t, "create_dir", 0, ExternalError)),
            LAMBDA t : Ext([t EXCEPT !.r_str = excerpt_name(tag, begin_time,
                                                t.adb_logcat_file_path)],
                           "open w", 0, ExternalError)),
            LAMBDA t : Ext([t EXCEPT !.out = [name |-> t.r_str, lines |-> <<>>]],
                           "open r", 0, ExternalError)),
            LAMBDA t : {[t EXCEPT !.out.lines =
                            excerpt_lines(t.logcat_file, FALSE, begin_time,
                                          t.r_int)]})

\* ------------------------------------------------------- take_bug_report --
\* str.replace(old, new) for a non-empty old.
RECURSIVE Replace(_, _, _)
Replace(text, old, new) ==
    IF Len(text) < Len(old) THEN text
    ELSE IF SubSeq(text, 1, Len(old)) = old
         THEN new \o Replace(SubSeq(text, Len(old) + 1, Len(text)), old, new)
         ELSE <<Head(text)>> \o Replace(Tail(text), old, new)

\* " " and "\ "
space == <<32>>
escaped_space == <<92, 32>>

\* The last component of full_out_path in take_bug_report.
bug_report_name(test_name, begin_time, new_br) ==
    LET txt_name == comma \o str(begin_time) \o comma \o serial \o txt
        base_name == IF new_br THEN Replace(txt_name, txt, zip) ELSE txt_name
        test_name_len == MAX_FILENAME_LEN - Len(base_name)
        out_name == Prefix(test_name, test_name_len) \o base_name
    IN Replace(out_name, space, escaped_space)

take_bug_report(s, test_name, begin_time) ==
    LET report(t, new_br) ==
            LET to == [name |-> bug_report_name(test_name, begin_time, new_br),
                       lines |-> <<>>]
            IN Bind(Bind(
                Ext(t, "create_dir", 0, ExternalError),
                wait_for_boot_completion),
                LAMBDA v :
                    IF new_br
                    THEN Bind(Query(v, "adb.shell bugreportz", 0, {0, 1}, AdbError),
                              LAMBDA w :
                                IF w.r_int = 0 THEN Raise(w, AndroidDeviceError)
                                ELSE Ext([w EXCEPT !.out = to], "adb.pull", 0,
                                         AdbError))
                    ELSE Ext([v EXCEPT !.out = to], "adb.bugreport", 0, AdbError))
    IN Bind(Catch({[t EXCEPT !.r_int = 1] :
                        t \in Ext(s, "adb.shell bugreportz -v", 0, AdbError)},
                  LAMBDA t : {[t EXCEPT !.r_int = 0]}),
            LAMBDA t : report(t, t.r_int = 1))

\* The test names: the strings of up to MaxTag characters "a" and " ".
TestNames == UNION {[1..k -> {97, 32}] : k \in 0..MaxTag}

\* ---------------------------------------------------------- public calls --
\* No public call is in progress and none has a result pending.
Idle == [op |-> "idle", arg |-> 0, exc |-> NoExc, ret |-> NoRet, log |-> <<>>,
         out |-> NoFile]

\* The state a public call starts in.
Enter == [h_port |-> h_port, droid_sessions |-> droid_sessions,
          event_dispatchers |-> event_dispatchers,
          adb_logcat_process |-> adb_logcat_process,
          adb_logcat_file_path |-> adb_logcat_file_path,
          forwards |-> forwards, procs |-> procs,
          product |-> product, logcat_file |-> logcat_file,
          exc |-> NoExc, log |-> <<>>, ncaught |-> 0, ret |-> NoRet,
          r_int |-> 0, r_droid |-> NoDroid, r_ed |-> <<>>, r_str |-> <<>>,
          out |-> NoFile]

\* The call op(arg) ended in state r; ret is what it returned to its caller.
Leave(op, arg, r, ret) ==
    /\ h_port' = r.h_port
    /\ droid_sessions' = r.droid_sessions
    /\ event_dispatchers' = r.event_dispatchers
    /\ adb_logcat_process' = r.adb_logcat_process
    /\ adb_logcat_file_path' = r.adb_logcat_file_path
    /\ forwards' = r.forwards
    /\ procs' = r.procs
    /\ product' = r.product
    /\ logcat_file' = r.logcat_file
    /\ UNCHANGED sim
    /\ call' = [op |-> op, arg |-> arg, exc |-> r.exc,
                ret |-> IF r.exc = NoExc THEN ret ELSE NoRet,
                log |-> r.log, out |-> r.out]

Init ==
    /\ h_port \in {None} \cup Ports
    /\ droid_sessions = <<>>
    /\ event_dispatchers = <<>>
    /\ adb_logcat_process = None
    /\ adb_logcat_file_path = NoPath
    /\ forwards = {}
    /\ procs = {}
    /\ product = DefaultProduct
    /\ logcat_file = <<>>
    /\ call = Idle
    /\ sim = NoSim

Call_start_services ==
    /\ call = Idle
    /\ \E skip_sl4a \in BOOLEAN : \E r \in start_services(Enter, skip_sl4a) :
           Leave("start_services", IF skip_sl4a THEN 1 ELSE 0, r, NoRet)

Call_stop_services ==
    /\ call = Idle
    /\ \E r \in stop_services(Enter) : Leave("stop_services", 0, r, NoRet)


Call_clean_up ==
    /\ call = Idle
    /\ \E r \in clean_up(Enter) : Leave("clean_up", 0, r, NoRet)


Call_start_adb_logcat ==
    /\ call = Idle
    /\ \E r \in start_adb_logcat(Enter) : Leave("start_adb_logcat", 0, r, NoRet)


Call_stop_adb_logcat ==
    /\ call = Idle
    /\ \E r \in stop_adb_logcat(Enter) : Leave("stop_adb_logcat", 0, r, NoRet)


Call_reboot ==
    /\ call = Idle
    /\ \E r \in reboot(Enter) : Leave("reboot", 0, r, r.ret)


Call_get_droid ==
    /\ call = Idle
    /\ \E handle_event \in BOOLEAN : \E r \in get_droid(Enter, handle_event) :
           Leave("get_droid", IF handle_event THEN 1 ELSE 0, r, r.ret)

Call_start_new_session ==
    /\ call = Idle
    /\ \E r \in start_new_session(Enter) :
           Leave("start_new_session", 0, r, [droid |-> r.r_droid, ed |-> <<>>])

Call_add_new_connection_to_session ==
    /\ call = Idle
    /\ \E session_id \in UIDs :
       \E r \in add_new_connection_to_session(Enter, session_id) :
           Leave("add_new_connection_to_session", session_id, r,
                 [droid |-> r.r_droid, ed |-> <<>>])

\* get_dispatcher(droid) for a droid the caller holds: the primary connection
\* of a registered session, or one whose session was terminated since.
Call_get_dispatcher ==
    /\ call = Idle
    /\ \E u \in UIDs :
       \E r \in get_dispatcher(Enter,
                    IF u \in DOMAIN droid_sessions THEN droid_sessions[u][1]
                    ELSE [uid |-> u, cid |-> None, sess |-> None]) :
           Leave("get_dispatcher", u, r, [droid |-> NoDroid, ed |-> r.r_ed])

Call_terminate_session ==
    /\ call = Idle
    /\ \E session_id \in UIDs : \E r \in terminate_session(Enter, session_id) :
           Leave("terminate_session", session_id, r, NoRet)

Call_terminate_all_sessions ==
    /\ call = Idle
    /\ \E r \in terminate_all_sessions(Enter) :
           Leave("terminate_all_sessions", 0, r, NoRet)

\* The caller takes the result of the call; the device is ready for the next.
Return ==
    /\ call # Idle
    /\ call' = Idle
    /\ UNCHANGED <<h_port, droid_sessions, event_dispatchers, adb_logcat_process,
                   adb_logcat_file_path, forwards, procs, product,
                   logcat_file, sim>>

Next ==
    \/ Return
    \/ Call_start_services
    \/ Call_stop_services
    \/ Call_clean_up
    \/ Call_start_adb_logcat
    \/ Call_stop_adb_logcat
    \/ Call_reboot
    \/ Call_get_droid
    \/ Call_start_new_session
    \/ Call_add_new_connection_to_session
    \/ Call_get_dispatcher
    \/ Call_terminate_session
    \/ Call_terminate_all_sessions

Spec == Init /\ [][Next]_vars

\* The tags of the excerpts: "", "a", "aa", ...
Tags == {[i \in 1..k |-> 97] : k \in 0..MaxTag}

\* cat_adb_log(tag, begin_time) on the capture file as it is now.
Call_cat_adb_log ==
    /\ call = Idle
    /\ \E tag \in Tags : \E begin_time \in Times :
       \E r \in cat_adb_log(Enter, tag, begin_time) :
           Leave("cat_adb_log", begin_time, r, NoRet)

\* take_bug_report(test_name, begin_time)
Call_take_bug_report ==
    /\ call = Idle
    /\ \E test_name \in TestNames : \E begin_time \in Times :
       \E r \in take_bug_report(Enter, test_name, begin_time) :
           Leave("take_bug_report", begin_time, r, NoRet)

\* ------------------------------------- terminate_session on any registry --
\* The registry entry of session uid with n connections.
EntryTS(uid, n) == [i \in 1..n |-> [uid |-> uid, cid |-> i, sess |-> 1]]

\* The registries with up to MaxConns connections per session: _droid_sessions
\* maps a uid to a list of droids, and terminate_session loops over the list.
RegistriesTS ==
    UNION {{[u \in D |-> EntryTS(u, n[u])] : n \in [D -> 1..MaxConns]}
            : D \in SUBSET UIDs}

InitTS ==
    /\ h_port \in Ports
    /\ forwards = {h_port}
    /\ droid_sessions \in RegistriesTS
    /\ \E K \in {{}, DOMAIN droid_sessions} :
          event_dispatchers =
            [k \in {ed_key(u) : u \in K} |->
                [droid |-> [uid |-> CHOOSE u \in K : ed_key(u) = k,
                            cid |-> MaxConns + 1, sess |-> 1],
                 started |-> TRUE]]
    /\ adb_logcat_process = None
    /\ adb_logcat_file_path = NoPath
    /\ procs = {}
    /\ product = DefaultProduct
    /\ logcat_file = <<>>
    /\ call = Idle
    /\ sim = NoSim

NextTS ==
    \/ Return
    \/ Call_terminate_session

SpecTS == InitTS /\ [][NextTS]_vars

\* --------------------------------------------- cat_adb_log on any capture --
\* The capture files of up to MaxLines lines; only the last line of a file can
\* lack its newline.
CaptureFiles ==
    UNION {{[i \in 1..k |-> [n |-> i, ts |-> f[i], nl |-> (i < k \/ e)]]
                : f \in [1..k -> Times \cup {Invalid}], e \in BOOLEAN}
            : k \in 0..MaxLines}

\* A device of any product that captured a file, or never started a capture.
InitCat ==
    /\ h_port = None
    /\ droid_sessions = <<>>
    /\ event_dispatchers = <<>>
    /\ adb_logcat_process = None
    /\ forwards = {}
    /\ procs = {}
    /\ product \in Models
    /\ \/ adb_logcat_file_path = NoPath /\ logcat_file = <<>>
       \/ adb_logcat_file_path = f_name(product) /\ logcat_file \in CaptureFiles
    /\ call = Idle
    /\ sim = NoSim

NextCat ==
    \/ Return
    \/ Call_cat_adb_log

SpecCat == InitCat /\ [][NextCat]_vars

\* ------------------------------------------- take_bug_report on a device --
InitBR ==
    /\ h_port = None
    /\ droid_sessions = <<>>
    /\ event_dispatchers = <<>>
    /\ adb_logcat_process = None
    /\ adb_logcat_file_path = NoPath
    /\ forwards = {}
    /\ procs = {}
    /\ product \in Models
    /\ logcat_file = <<>>
    /\ call = Idle
    /\ sim = NoSim

NextBR ==
    \/ Return
    \/ Call_take_bug_report

SpecBR == InitBR /\ [][NextBR]_vars

\* ------------------------------------- a capture started, stopped, reused --
\* A test that starts the capture, stops it, and then starts it again or takes
\* an excerpt; or takes an excerpt at once.  call.op tells how far it has come.
InitLog ==
    /\ h_port = None
    /\ droid_sessions = <<>>
    /\ event_dispatchers = <<>>
    /\ adb_logcat_process = None
    /\ adb_logcat_file_path = NoPath
    /\ forwards = {}
    /\ procs = {}
    /\ product \in Models
    /\ logcat_file = <<>>
    /\ call = Idle
    /\ sim = NoSim

\* stop_adb_logcat after a start that succeeded; the capture process has
\* written some lines to its file by then.
Log_stop ==
    /\ call.op = "start_adb_logcat"
    /\ call.exc = NoExc
    /\ \E lines \in CaptureFiles :
       \E r \in stop_adb_logcat([Enter EXCEPT !.logcat_file = lines]) :
           Leave("stop_adb_logcat after start", 0, r, NoRet)

\* start_adb_logcat after the stop succeeded.
Log_restart ==
    /\ call.op = "stop_adb_logcat after start"
    /\ call.exc = NoExc
    /\ \E r \in start_adb_logcat(Enter) :
           Leave("start_adb_logcat after stop", 0, r, NoRet)

\* cat_adb_log(tag, begin_time) after the stop succeeded.
Log_cat ==
    /\ call.op = "stop_adb_logcat after start"
    /\ call.exc = NoExc
    /\ \E tag \in Tags : \E begin_time \in Times :
       \E r \in cat_adb_log(Enter, tag, begin_time) :
           Leave("cat_adb_log after stop", begin_time, r, NoRet)

NextLog ==
    \/ Call_start_adb_logcat
    \/ Call_cat_adb_log
    \/ Log_stop
    \/ Log_restart
    \/ Log_cat

SpecLog == InitLog /\ [][NextLog]_vars

\* ------------------------------------------------------------- create() --
\* create(configs, logger) builds one AndroidDevice per configured device and
\* starts its services.  Its devices are the records of ads, with the serial
\* and the skip_sl4a attribute of each in sers and skips; the log, the
\* exception, the host's port mappings and its processes are those of the one
\* run that works on all of them.
Serials == {1, 2}

\* The attributes of an AndroidDevice after the assignments of __init__.
NewDevice ==
    [h_port |-> None, droid_sessions |-> <<>>, event_dispatchers |-> <<>>,
     adb_logcat_process |-> None, adb_logcat_file_path |-> NoPath,
     forwards |-> {}, procs |-> {},
     product |-> DefaultProduct, logcat_file |-> <<>>,
     exc |-> NoExc, log |-> <<>>, ncaught |-> 0, ret |-> NoRet,
     r_int |-> 0, r_droid |-> NoDroid, r_ed |-> <<>>, r_str |-> <<>>,
     out |-> NoFile]

\* The run of a module function before its first statement.
World ==
    [ads |-> <<>>, sers |-> <<>>, skips |-> <<>>, connected |-> {},
     forwards |-> forwards, procs |-> procs,
     exc |-> NoExc, log |-> <<>>, ncaught |-> 0, r_int |-> 0]

\* Method F of device i runs within run w.
OnDevice(w, i, F(_)) ==
    LET d == [w.ads[i] EXCEPT !.log = w.log, !.exc = NoExc,
                              !.ncaught = w.ncaught,
                              !.forwards = w.forwards, !.procs = w.procs]
    IN {[w EXCEPT !.ads[i] = [t EXCEPT !.log = <<>>, !.exc = NoExc,
                                      !.ncaught = 0],
                  !.log = t.log, !.exc = t.exc, !.ncaught = t.ncaught,
                  !.forwards = t.forwards, !.procs = t.procs]
            : t \in F(d)}

\* AndroidDevice(serial, logger=logger), and skip_sl4a as load_config set it.
AndroidDevice(w, s, skip_sl4a) ==
    Bind(Bind(is_bootloader(Logged(w, "AndroidDevice", s, TRUE)),
              LAMBDA t : IF t.r_int = 0 THEN root_adb(t) ELSE {t}),
         LAMBDA t : {[t EXCEPT !.ads = Append(@, NewDevice),
                               !.sers = Append(@, s),
                               !.skips = Append(@, skip_sl4a)]})

\* list_adb_devices(): the serials adb lists as "device", here attached.
list_adb_devices(w, attached) ==
    {[Logged(w, "adb.devices", 0, TRUE) EXCEPT !.connected = attached]}
        \cup Failing(w, "adb.devices", 0, AdbError)

RECURSIVE get_instances(_, _)
get_instances(w, serials) ==
    IF serials = <<>> THEN {w}
    ELSE Bind(AndroidDevice(w, Head(serials), FALSE),
              LAMBDA t : get_instances(t, Tail(serials)))

\* A config c is a dict: c.serial is None when it has no key "serial",
\* c.clash says that one of its other keys is an attribute of the object
\* already, c.skip_sl4a is its value under "skip_sl4a", False without one.
RECURSIVE get_instances_with_configs(_, _)
get_instances_with_configs(w, configs) ==
    IF configs = <<>> THEN {w}
    ELSE LET c == Head(configs)
         IN IF c.serial = None THEN Raise(w, AndroidDeviceError)
            ELSE Bind(Bind(AndroidDevice(w, c.serial, c.skip_sl4a),
                           LAMBDA t : IF c.clash
                                      THEN Raise(t, AndroidDeviceError)
                                      ELSE {t}),
                      LAMBDA t : get_instances_with_configs(t, Tail(configs)))

\* get_all_instances(logger=logger): one device per serial adb lists, here in
\* the order of the serials.
get_all_instances(w, attached) ==
    Bind(list_adb_devices(w, attached),
         LAMBDA t : get_instances(t, SortedInts(t.connected)))

\* destroy without its try/except.
RECURSIVE destroy_propagating(_, _, _)
destroy_propagating(w, i, n) ==
    IF i > n THEN {w}
    ELSE Bind(OnDevice(Logged(w, "clean_up", w.sers[i], TRUE), i, clean_up),
              LAMBDA t : destroy_propagating(t, i + 1, n))

\* destroy(ads) for the devices i..n of the run.
RECURSIVE destroy(_, _, _)
destroy(w, i, n) ==
    IF i > n THEN {w}
    ELSE Bind(Catch(OnDevice(Logged(w, "clean_up", w.sers[i], TRUE), i, clean_up),
                    LAMBDA t : {Logged(t, "log Failed to clean up properly.",
                                       w.sers[i], TRUE)}),
              LAMBDA t : destroy(t, i + 1, n))

\* _start_services_on_ads cleaning up only the device that failed to start.
RECURSIVE _start_services_on_ads_cleaning_last(_, _)
_start_services_on_ads_cleaning_last(w, i) ==
    IF i > Len(w.ads) THEN {w}
    ELSE UNION {
            IF t.exc = NoExc THEN _start_services_on_ads_cleaning_last(t, i + 1)
            ELSE {[v EXCEPT !.exc = t.exc] :
                    v \in destroy(Logged([t EXCEPT !.exc = NoExc],
                                         "log Failed to start some services, abort!",
                                         w.sers[i], TRUE),
                                  i, i)}
            : t \in OnDevice(Logged(w, "start_services", w.sers[i], TRUE), i,
                             LAMBDA d : start_services(d, w.skips[i]))}

\* _start_services_on_ads(ads) from device i on; devices 1..i are running_ads
\* when start_services of device i is called.
RECURSIVE _start_services_on_ads(_, _)
_start_services_on_ads(w, i) ==
    IF i > Len(w.ads) THEN {w}
    ELSE UNION {
            IF t.exc = NoExc THEN _start_services_on_ads(t, i + 1)
            ELSE {[v EXCEPT !.exc = t.exc] :
                    v \in destroy(Logged([t EXCEPT !.exc = NoExc],
                                         "log Failed to start some services, abort!",
                                         w.sers[i], TRUE),
                                  1, i)}
            : t \in OnDevice(Logged(w, "start_services", w.sers[i], TRUE), i,
                             LAMBDA d : start_services(d, w.skips[i]))}

\* The configs create is given: nothing, the token "*", something that is no
\* list, a list of serials or a list of dicts.
MaxAds == 2
DictConfigs == [serial : Serials \cup {None}, skip_sl4a : BOOLEAN, clash : BOOLEAN]
Configs ==
    {[kind |-> k, items |-> <<>>] : k \in {"empty", "*", "not a list"}}
        \cup {[kind |-> "serials", items |-> l]
                : l \in UNION {[1..n -> Serials] : n \in 1..MaxAds}}
        \cup {[kind |-> "dicts", items |-> l]
                : l \in UNION {[1..n -> DictConfigs] : n \in 1..MaxAds}}

\* create(configs, logger); listed is what adb lists when get_all_instances
\* asks, attached what it lists when create asks.
create(w, configs, listed, attached) ==
    LET ads == IF configs.kind = "empty" THEN Raise(w, AndroidDeviceError)
               ELSE IF configs.kind = "*" THEN get_all_instances(w, listed)
               ELSE IF configs.kind = "not a list" THEN Raise(w, AndroidDeviceError)
               ELSE IF configs.kind = "serials" THEN get_instances(w, configs.items)
               ELSE get_instances_with_configs(w, configs.items)
    IN Bind(Bind(ads, LAMBDA t : list_adb_devices(t, attached)),
            LAMBDA t :
                IF \E i \in DOMAIN t.sers : t.sers[i] \notin t.connected
                THEN Raise(t, DoesNotExistError)
                ELSE _start_services_on_ads(t, 1))

\* The attributes of device d that outlive a call.
DeviceState(d) ==
    [h_port |-> d.h_port, droid_sessions |-> d.droid_sessions,
     event_dispatchers |-> d.event_dispatchers,
     adb_logcat_process |-> d.adb_logcat_process,
     adb_logcat_file_path |-> d.adb_logcat_file_path]

\* create(configs, logger) on a host where no device object exists yet.  The
\* variables of the device follow the first object create built; call.ret
\* holds the serials and the attributes of all, also when create raised.
Call_create ==
    /\ call = Idle
    /\ \E configs \in Configs : \E listed, attached \in SUBSET Serials :
         \E r \in create(World, configs,
                         IF configs.kind = "*" THEN listed ELSE attached,
                         attached) :
            LET d == IF r.ads = <<>> THEN Enter ELSE r.ads[1]
            IN /\ h_port' = d.h_port
               /\ droid_sessions' = d.droid_sessions
               /\ event_dispatchers' = d.event_dispatchers
               /\ adb_logcat_process' = d.adb_logcat_process
               /\ adb_logcat_file_path' = d.adb_logcat_file_path
               /\ forwards' = r.forwards
               /\ procs' = r.procs
               /\ UNCHANGED <<product, logcat_file, sim>>
               /\ call' = [op |-> "create",
                           arg |-> [configs |-> configs, attached |-> attached],
                           exc |-> r.exc,
                           ret |-> [sers |-> r.sers,
                                    ads |-> [i \in DOMAIN r.ads |->
                                                DeviceState(r.ads[i])]],
                           log |-> r.log, out |-> NoFile]

InitCreate ==
    /\ h_port = None
    /\ droid_sessions = <<>>
    /\ event_dispatchers = <<>>
    /\ adb_logcat_process = None
    /\ adb_logcat_file_path = NoPath
    /\ forwards = {}
    /\ procs = {}
    /\ product = DefaultProduct
    /\ logcat_file = <<>>
    /\ call = Idle
    /\ sim = NoSim

NextCreate == Call_create

SpecCreate == InitCreate /\ [][NextCreate]_vars

\* ------------------------------------- _start_services_on_ads, destroy --
\* The lists of devices the module functions are given: the serials of one
\* or more different devices, each built by AndroidDevice(serial).
AdLists ==
    {l \in UNION {[1..n -> Serials] : n \in 1..Cardinality(Serials)} :
        \A i, j \in DOMAIN l : l[i] = l[j] => i = j}

\* The object of a device whose attributes are those of record d.
DeviceOf(d) ==
    [NewDevice EXCEPT !.h_port = d.h_port,
                      !.droid_sessions = d.droid_sessions,
                      !.event_dispatchers = d.event_dispatchers,
                      !.adb_logcat_process = d.adb_logcat_process,
                      !.adb_logcat_file_path = d.adb_logcat_file_path]

\* The module function op(arg) ended in run r: the variables of the device
\* follow the first device of the list, call.ret holds the serials and the
\* attributes of all, also when the function raised.
LeaveWorld(op, arg, r) ==
    /\ h_port' = r.ads[1].h_port
    /\ droid_sessions' = r.ads[1].droid_sessions
    /\ event_dispatchers' = r.ads[1].event_dispatchers
    /\ adb_logcat_process' = r.ads[1].adb_logcat_process
    /\ adb_logcat_file_path' = r.ads[1].adb_logcat_file_path
    /\ forwards' = r.forwards
    /\ procs' = r.procs
    /\ UNCHANGED <<product, logcat_file, sim>>
    /\ call' = [op |-> op, arg |-> arg, exc |-> r.exc,
                ret |-> [sers |-> r.sers,
                         ads |-> [i \in DOMAIN r.ads |-> DeviceState(r.ads[i])]],
                log |-> r.log, out |-> NoFile]

\* _start_services_on_ads(ads) for a list of devices just built.
Call_start_services_on_ads ==
    /\ call = Idle
    /\ \E sers \in AdLists : \E skips \in [DOMAIN sers -> BOOLEAN] :
         \E r \in _start_services_on_ads(
                    [World EXCEPT !.ads = [i \in DOMAIN sers |-> NewDevice],
                                  !.sers = sers, !.skips = skips], 1) :
            LeaveWorld("_start_services_on_ads", 0, r)

\* destroy(ads) for the devices whose services _start_services_on_ads started.
Ads_destroy ==
    /\ call.op = "_start_services_on_ads"
    /\ call.exc = NoExc
    /\ \E r \in destroy(
                    [World EXCEPT !.ads = [i \in DOMAIN call.ret.ads |->
                                                DeviceOf(call.ret.ads[i])],
                                  !.sers = call.ret.sers,
                                  !.skips = [i \in DOMAIN call.ret.ads |-> FALSE]],
                    1, Len(call.ret.ads)) :
            LeaveWorld("destroy", 0, r)

NextAds ==
    \/ Call_start_services_on_ads
    \/ Ads_destroy

SpecAds == InitCreate /\ [][NextAds]_vars

\* ------------------------------------------- get_droid on two threads --
\* Two devices, each on a thread of its own that calls get_droid.  A thread
\* is at one of the statements of get_droid that call out of the object: the
\* choice of the host port (lines 538-539), adb.tcp_forward (line 540) and
\* the negotiation of the session (lines 541-549).  call.ret holds the
\* attributes of the two devices, the place pc of each thread and the
\* exception exc that ended it; the variables of the device follow the first.

\* if not self.h_port or not adb.is_port_available(self.h_port):
\*     self.h_port = adb.get_available_host_port()
get_droid_port(s) ==
    LET pick(t) == Bind(get_available_host_port(t),
                        LAMBDA v : {[v EXCEPT !.h_port = v.r_int]})
    IN IF s.h_port = None THEN pick(s)
       ELSE Bind(is_port_available(s, s.h_port),
                 LAMBDA t : IF t.r_int = 0 THEN pick(t) ELSE {t})

\* self.adb.tcp_forward(self.h_port, self.d_port)
get_droid_forward(s) == tcp_forward(s, s.h_port)

\* The rest of get_droid: start_new_session, once more after a restart of the
\* agent when it fails, and get_dispatcher.
get_droid_session(s, handle_event) ==
    Bind(Catch(start_new_session(s),
               LAMBDA v : Bind(Ext(v, "adb.start_sl4a", 0, AdbError),
                               start_new_session)),
         LAMBDA t : IF handle_event THEN get_dispatcher(t, t.r_droid) ELSE {t})

Threads == {1, 2}

\* The run of thread d goes on from what call records.
Resume ==
    [World EXCEPT !.ads = [i \in DOMAIN call.ret.ads |-> DeviceOf(call.ret.ads[i])],
                  !.sers = call.ret.sers,
                  !.skips = [i \in DOMAIN call.ret.ads |-> FALSE],
                  !.log = call.log]

\* Thread d ended a statement in run r and is at place pc next.
Yield(d, r, pc) ==
    /\ h_port' = r.ads[1].h_port
    /\ droid_sessions' = r.ads[1].droid_sessions
    /\ event_dispatchers' = r.ads[1].event_dispatchers
    /\ adb_logcat_process' = r.ads[1].adb_logcat_process
    /\ adb_logcat_file_path' = r.ads[1].adb_logcat_file_path
    /\ forwards' = r.forwards
    /\ procs' = r.procs
    /\ UNCHANGED <<product, logcat_file, sim>>
    /\ call' = [call EXCEPT
                    !.log = r.log,
                    !.ret = [@ EXCEPT
                        !.ads = [i \in DOMAIN r.ads |-> DeviceState(r.ads[i])],
                        !.pc[d] = IF r.exc = NoExc THEN pc ELSE "raised",
                        !.exc[d] = r.exc]]

\* Each of two devices just built gets a thread that calls get_droid.
Conc_begin ==
    /\ call = Idle
    /\ call' = [op |-> "get_droid threads", arg |-> 0, exc |-> NoExc,
                ret |-> [sers |-> <<1, 2>>,
                         ads |-> [d \in Threads |-> DeviceState(NewDevice)],
                         pc |-> [d \in Threads |-> "port"],
                         exc |-> [d \in Threads |-> NoExc]],
                log |-> <<>>, out |-> NoFile]
    /\ UNCHANGED <<h_port, droid_sessions, event_dispatchers, adb_logcat_process,
                   adb_logcat_file_path, forwards, procs, product,
                   logcat_file, sim>>

Conc_port ==
    /\ call.op = "get_droid threads"
    /\ \E d \in Threads :
        /\ call.ret.pc[d] = "port"
        /\ \E r \in OnDevice(Resume, d, get_droid_port) : Yield(d, r, "forward")

Conc_forward ==
    /\ call.op = "get_droid threads"
    /\ \E d \in Threads :
        /\ call.ret.pc[d] = "forward"
        /\ \E r \in OnDevice(Resume, d, get_droid_forward) : Yield(d, r, "session")

Conc_session ==
    /\ call.op = "get_droid threads"
    /\ \E d \in Threads :
        /\ call.ret.pc[d] = "session"
        /\ \E handle_event \in BOOLEAN :
            \E r \in OnDevice(Resume, d,
                              LAMBDA s : get_droid_session(s, handle_event)) :
                Yield(d, r, "done")

NextConc ==
    \/ Conc_begin
    \/ Conc_port
    \/ Conc_forward
    \/ Conc_session

SpecConc == InitCreate /\ [][NextConc]_vars

\* ------------------------------------------------------- BaseSimulation --
\* Powers and path losses are floats of the program: they are held in half
\* decibels (2 * dB), so that round() has halves to round.  The levels of the
\* base station are whole decibels, as every value the class writes to them.
ValueError == "ValueError"
RuntimeError == "RuntimeError"

\* Class attributes of BaseSimulation, in dB.
DOWNLINK_CAL_TARGET_POWER_DBM == [A |-> -15, B |-> -35]
MAX_BTS_INPUT_POWER_DBM == 30
MAX_PHONE_OUTPUT_POWER_DBM == 23
DOWNLINK_MAX_POWER == [A |-> -10, B |-> -30]
UPLINK_MIN_POWER == -60
ATTACH_MAX_RETRIES == 3

\* An attribute that is None; <<x>> is one that holds the number x.
NoValue == <<>>

\* Python's truth of an optional number: None and 0 are false.
Truthy(v) == v # NoValue /\ v[1] # 0

\* round(h / 2) in dB for h half decibels: Python 3 rounds a half to the even
\* neighbour.
round(h) ==
    LET k == h \div 2
    IN  IF h % 2 = 0 THEN k
        ELSE IF k % 2 = 0 THEN k ELSE k + 1

\* The RAT label a class passes to downlink_calibration: BaseSimulation itself
\* passes none, a child class overrides the method to pass its own.
NoRat == "none"

\* toggle_airplane_mode(self.log, self.dut, new_state)
toggle_airplane_mode(b, new_state) ==
    {[Logged(b, "toggle_airplane_mode", IF new_state THEN 1 ELSE 0, TRUE)
         EXCEPT !.airplane = new_state]}

\* bts.output_level = level, bts.input_level = level
set_level(b, which, level) ==
    {[Logged(b, which, level, TRUE) EXCEPT ![which] = level]}

\* anritsu.wait_for_registration_state: the phone registers, or AnritsuError.
wait_for_registration_state(b) ==
    {Logged(b, "wait_for_registration_state", 0, ok) : ok \in BOOLEAN}

set_downlink_rx_power(b, power) ==
    IF b.dl_path_loss # NoValue
    THEN LET calibrated_power == round(power + b.dl_path_loss[1])
         IN  IF calibrated_power > DOWNLINK_MAX_POWER[b.version]
             THEN set_level(b, "output_level", DOWNLINK_MAX_POWER[b.version])
             ELSE set_level(b, "output_level", calibrated_power)
    \* except TypeError: the path loss is None
    ELSE set_level(b, "output_level", round(power))

set_uplink_tx_power(b, power) ==
    IF b.ul_path_loss # NoValue
    THEN LET calibrated_power == round(power - b.ul_path_loss[1])
         IN  IF calibrated_power < UPLINK_MIN_POWER
             THEN set_level(b, "input_level", UPLINK_MIN_POWER)
             ELSE set_level(b, "input_level", calibrated_power)
    \* except TypeError: the path loss is None
    ELSE set_level(b, "input_level", round(power))

\* The end of attach, reached when the loop is left: the configured signal
\* levels, and True.
attach_levels(b) ==
    Bind(IF Truthy(b.sim_dl_power)
         THEN set_downlink_rx_power(b, b.sim_dl_power[1]) ELSE {b},
         LAMBDA b1 :
    Bind(IF Truthy(b1.sim_ul_power)
         THEN set_uplink_tx_power(b1, b1.sim_ul_power[1]) ELSE {b1},
         LAMBDA b2 : {[b2 EXCEPT !.r_bool = TRUE]}))

\* attach's loop without the switch back to airplane mode after a failed
\* attempt.
RECURSIVE attach_attempts_staying_online(_, _)
attach_attempts_staying_online(b, i) ==
    IF i >= ATTACH_MAX_RETRIES THEN attach_levels(b)
    ELSE
    Bind(toggle_airplane_mode(b, FALSE), LAMBDA b1 :
    Bind(wait_for_registration_state(b1), LAMBDA b2 :
        IF b2.log[Len(b2.log)].ok
        THEN attach_levels(Logged(b2, "log.info attached", i + 1, TRUE))
        ELSE LET b3 == Logged(b2, "log.info failed to attach", i + 1, TRUE)
             IN  IF i < ATTACH_MAX_RETRIES - 1
                 THEN attach_attempts_staying_online(b3, i + 1)
                 ELSE {[b3 EXCEPT !.r_bool = FALSE]}))

\* The body of attach's loop from attempt i on (i counts from 0).
RECURSIVE attach_attempts(_, _)
attach_attempts(b, i) ==
    IF i >= ATTACH_MAX_RETRIES THEN attach_levels(b)
    ELSE
    Bind(toggle_airplane_mode(b, FALSE), LAMBDA b1 :
    Bind(wait_for_registration_state(b1), LAMBDA b2 :
        IF b2.log[Len(b2.log)].ok
        THEN \* else: break
             attach_levels(Logged(b2, "log.info attached", i + 1, TRUE))
        ELSE \* except AnritsuError
             Bind(toggle_airplane_mode(
                      Logged(b2, "log.info failed to attach", i + 1, TRUE),
                      TRUE),
                  LAMBDA b3 :
                 IF i < ATTACH_MAX_RETRIES - 1
                 THEN attach_attempts(b3, i + 1)
                 ELSE {[b3 EXCEPT !.r_bool = FALSE]})))

attach(b) ==
    Bind(toggle_airplane_mode(b, TRUE), LAMBDA b1 :
    Bind(set_level(b1, "input_level", -10), LAMBDA b2 :
    Bind(set_level(b2, "output_level", -30), LAMBDA b3 :
        attach_attempts(b3, 0))))

detach(b) ==
    Bind(toggle_airplane_mode(b, TRUE), LAMBDA b1 :
        {Logged(b1, "set_simulation_state_to_poweroff", 0, TRUE)})

\* OPERATEIPTRAFFIC START or STOP.  An AnritsuError is logged as a warning and
\* the method goes on as after a success: one event stands for both.
send_command(b, cmd) == {Logged(b, cmd, 0, TRUE)}

\* The path loss is left in r_loss.  The NUM_DOWNLINK_CAL_READS reads of the
\* phone's signal strength are one event that carries their mean.
downlink_calibration(b, rat) ==
    IF rat = NoRat THEN Raise(b, ValueError)
    ELSE
    LET init_output_level == b.output_level
        target == DOWNLINK_CAL_TARGET_POWER_DBM[b.version]
    IN
    Bind(set_level(b, "output_level", target), LAMBDA b1 :
    Bind(send_command(b1, "OPERATEIPTRAFFIC START,1"), LAMBDA b2 :
    \* the phone reports a mean of -40.5 or -15 dBm
    Bind({Logged(b2, "get_telephony_signal_strength", m, TRUE) :
              m \in {-81, -30}}, LAMBDA b3 :
    Bind(send_command(b3, "OPERATEIPTRAFFIC STOP,1"), LAMBDA b4 :
    Bind(set_level(b4, "output_level", init_output_level), LAMBDA b5 :
        LET avg_down_power ==
                b3.log[Len(b3.log)].a
            down_call_path_loss == 2 * target - avg_down_power
        IN  IF ~(0 < down_call_path_loss /\ down_call_path_loss < 200)
            THEN Raise(b5, RuntimeError)
            ELSE {[b5 EXCEPT !.r_loss = down_call_path_loss]})))))

\* The path loss is left in r_loss.  The NUM_UPLINK_CAL_READS queries of the
\* callbox are one event; its mean over chain 0 is nan when ok is FALSE.
uplink_calibration(b) ==
    LET target_power == MAX_PHONE_OUTPUT_POWER_DBM
        initial_input_level == b.input_level
    IN
    Bind(set_level(b, "input_level", MAX_BTS_INPUT_POWER_DBM), LAMBDA b1 :
    Bind(send_command(b1, "OPERATEIPTRAFFIC START,1"), LAMBDA b2 :
    Bind({Logged(b2, "MONITOR? UL_PUSCH",
                 IF m = NoValue THEN 0 ELSE m[1], m # NoValue) :
              \* the callbox measures -10 or 23 dBm, or DEACTIVE
              m \in {<<-20>>, <<46>>, NoValue}}, LAMBDA b3 :
    Bind(send_command(b3, "OPERATEIPTRAFFIC STOP,1"), LAMBDA b4 :
    Bind(set_level(b4, "input_level", initial_input_level), LAMBDA b5 :
        LET measured == b3.log[Len(b3.log)]
            up_call_path_loss == 2 * target_power - measured.a
        IN  IF ~measured.ok THEN Raise(b5, RuntimeError)
            ELSE IF ~(0 < up_call_path_loss /\ up_call_path_loss < 200)
            THEN Raise(b5, RuntimeError)
            ELSE {[b5 EXCEPT !.r_loss = up_call_path_loss]})))))

calibrate(b) ==
    Bind({IF Truthy(b.dl_path_loss) /\ Truthy(b.ul_path_loss)
          THEN Logged(b, "log.info already calibrated", 0, TRUE)
          ELSE b}, LAMBDA b0 :
    Bind(attach(b0), LAMBDA b1 :
        IF ~b1.r_bool
        THEN {Logged(b1, "log.info skipping calibration", 0, TRUE)}
        ELSE
        Bind(IF ~Truthy(b1.dl_path_loss)
             THEN Bind(downlink_calibration(b1, b1.rat), LAMBDA c :
                       {[c EXCEPT !.dl_path_loss = <<c.r_loss>>]})
             ELSE {b1}, LAMBDA b2 :
        Bind(IF ~Truthy(b2.ul_path_loss)
             THEN Bind(uplink_calibration(b2), LAMBDA c :
                       {[c EXCEPT !.ul_path_loss = <<c.r_loss>>]})
             ELSE {b2}, LAMBDA b3 :
            detach(b3)))))

set_band(b, band, calibrate_if_necessary) ==
    LET b1 == IF band # b.current_calibrated_band
              THEN [Logged(b, "band", band, TRUE)
                       EXCEPT !.band = band,
                              !.current_calibrated_band = band,
                              !.dl_path_loss = NoValue,
                              !.ul_path_loss = NoValue]
              ELSE b
    IN  IF calibrate_if_necessary
           /\ (~Truthy(b1.dl_path_loss) \/ ~Truthy(b1.ul_path_loss))
        THEN calibrate(b1)
        ELSE {b1}

\* The state a call on the simulation starts in.
EnterSim == [version |-> sim.version, rat |-> sim.rat,
             current_calibrated_band |-> sim.current_calibrated_band,
             dl_path_loss |-> sim.dl_path_loss,
             ul_path_loss |-> sim.ul_path_loss,
             sim_dl_power |-> sim.sim_dl_power,
             sim_ul_power |-> sim.sim_ul_power,
             output_level |-> sim.output_level,
             input_level |-> sim.input_level,
             band |-> sim.band, airplane |-> sim.airplane,
             exc |-> NoExc, log |-> <<>>, r_bool |-> FALSE, r_loss |-> 0]

\* The call op(arg) on the simulation ended in state r and returned ret:
\* NoRet for None, [value |-> v] for the boolean v.
LeaveSim(op, arg, r, ret) ==
    /\ sim' = [version |-> r.version, rat |-> r.rat,
               current_calibrated_band |-> r.current_calibrated_band,
               dl_path_loss |-> r.dl_path_loss,
               ul_path_loss |-> r.ul_path_loss,
               sim_dl_power |-> r.sim_dl_power,
               sim_ul_power |-> r.sim_ul_power,
               output_level |-> r.output_level,
               input_level |-> r.input_level,
               band |-> r.band, airplane |-> r.airplane]
    /\ call' = [op |-> op, arg |-> arg, exc |-> r.exc, ret |-> ret,
                log |-> r.log, out |-> NoFile]
    /\ UNCHANGED <<h_port, droid_sessions, event_dispatchers,
                   adb_logcat_process, adb_logcat_file_path, forwards, procs,
                   product, logcat_file>>

Call_attach ==
    /\ call = Idle
    /\ \E r \in attach(EnterSim) : LeaveSim("attach", 0, r, [value |-> r.r_bool])

Call_set_downlink_rx_power ==
    /\ call = Idle
    \* -60, -30, -19.5 or 0 dBm
    /\ \E power \in {-120, -60, -39, 0} :
        \E r \in set_downlink_rx_power(EnterSim, power) :
            LeaveSim("set_downlink_rx_power", power, r, NoRet)

Call_calibrate ==
    /\ call = Idle
    /\ \E r \in calibrate(EnterSim) : LeaveSim("calibrate", 0, r, NoRet)

Call_set_band ==
    /\ call = Idle
    /\ \E band \in {1, 2}, calibrate_if_necessary \in BOOLEAN :
        \E r \in set_band(EnterSim, band, calibrate_if_necessary) :
            LeaveSim("set_band", band, r, NoRet)

\* A child class's parse_parameters stores the signal levels of the
\* simulation, which attach applies: none, 0 or -30 dBm.
Sim_parse_parameters ==
    /\ call = Idle
    /\ \E dl, ul \in {NoValue, <<0>>, <<-60>>} :
        LeaveSim("parse_parameters", 0,
                 [EnterSim EXCEPT !.sim_dl_power = dl, !.sim_ul_power = ul],
                 [value |-> TRUE])

InitSim ==
    /\ h_port = None
    /\ droid_sessions = <<>>
    /\ event_dispatchers = <<>>
    /\ adb_logcat_process = None
    /\ adb_logcat_file_path = NoPath
    /\ forwards = {}
    /\ procs = {}
    /\ product = DefaultProduct
    /\ logcat_file = <<>>
    \* __init__ on a callbox of version A or B, by BaseSimulation itself or by
    \* a child class that calibrates "lteRsrp"
    /\ \E version \in {"A", "B"}, rat \in {NoRat, "lteRsrp"} :
        sim = [version |-> version, rat |-> rat,
               current_calibrated_band |-> None,
               dl_path_loss |-> NoValue, ul_path_loss |-> NoValue,
               sim_dl_power |-> NoValue, sim_ul_power |-> NoValue,
               output_level |-> -30, input_level |-> -10,
               band |-> 1, airplane |-> FALSE]
    /\ call = Idle

NextSim ==
    \/ Return
    \/ Call_attach
    \/ Call_set_downlink_rx_power
    \/ Call_calibrate
    \/ Call_set_band
    \/ Sim_parse_parameters

SpecSim == InitSim /\ [][NextSim]_vars

\* ------------------------------------------------------------ the log --
Has(log, c) == \E i \in DOMAIN log : log[i].c = c
HasOk(log, c) == \E i \in DOMAIN log : log[i].c = c /\ log[i].ok
Failed(log) == {i \in DOMAIN log : ~log[i].ok}

\* ----------------------------------------------------------------- C1 --
\* C1: after any sequence of public calls, failed ones included, at most one
\* log-capture subprocess of the device runs, and it is the one
\* adb_logcat_process names; every capture process was spawned while no other
\* was running (it got the first free pid).
C1_AtMostOneCapture ==
    /\ Cardinality(procs) <= 1
    /\ procs \subseteq {adb_logcat_process}
    /\ \A i \in DOMAIN call.log :
          (call.log[i].c = "start_standing_subprocess" /\ call.log[i].ok)
              => call.log[i].a = 1

\* A reboot that stopped the running capture and started a new one.
C1_Witness ==
    /\ call.op = "reboot"
    /\ call.exc = NoExc
    /\ HasOk(call.log, "stop_standing_subprocess")
    /\ HasOk(call.log, "start_standing_subprocess")
    /\ procs # {}

\* ----------------------------------------------------------------- C2 --
\* C2: when get_droid has established a mapping on a host port, no mapping of
\* the device on another host port is active.
C2_AtMostOneForward ==
    call.op = "get_droid" =>
        \A i \in DOMAIN call.log :
            (call.log[i].c = "adb.tcp_forward" /\ call.log[i].ok)
                => forwards \subseteq {call.log[i].a}

\* ----------------------------------------------------------------- C3 --
\* C3: when the agent returns a uid that is already a key of _droid_sessions,
\* start_new_session raises SL4AException and leaves _droid_sessions as it was;
\* inside get_droid the entry of such a uid is left as it was too.
C3_NoOverwrite ==
    [][/\ (call'.op = "start_new_session"
            /\ call'.log[1].ok
            /\ call'.log[1].a \in DOMAIN droid_sessions)
          => (call'.exc = SL4AException /\ droid_sessions' = droid_sessions)
       /\ call'.op = "get_droid"
          => \A i \in DOMAIN call'.log :
                (call'.log[i].c = "Android initiate"
                    /\ call'.log[i].ok
                    /\ call'.log[i].a \in DOMAIN droid_sessions)
                => /\ call'.log[i].a \in DOMAIN droid_sessions'
                   /\ droid_sessions'[call'.log[i].a]
                        = droid_sessions[call'.log[i].a]]_vars

\* start_new_session was refused for a uid that names a registered session.
C3_Witness ==
    /\ call.op = "start_new_session"
    /\ call.exc = SL4AException
    /\ call.log[1].a \in DOMAIN droid_sessions

\* ----------------------------------------------------------------- C4 --
\* The commands of terminate_session that can fail.
SessionCmds == {"closeSl4aSession", "close", "ed.clean_up"}

\* The session ids terminate_session was called for, in order.
Attempts(log) ==
    LET calls == SelectSeq(log, LAMBDA e : e.c = "terminate_session")
    IN [i \in DOMAIN calls |-> calls[i].a]

\* C4: when terminate_session fails for a session during stop_services, the
\* failure is logged for that session and is not raised (stop_services returns
\* normally when nothing but session teardown failed), and terminate_session is
\* called exactly once for every session id registered when the call began.
C4_TeardownIsolated ==
    [][(call'.op = "stop_services"
          /\ \E i \in Failed(call'.log) : call'.log[i].c \in SessionCmds)
       => /\ (\A i \in Failed(call'.log) : call'.log[i].c \in SessionCmds)
                => call'.exc = NoExc
          /\ Attempts(call'.log) = SortedInts(DOMAIN droid_sessions)
          /\ \A i \in Failed(call'.log) :
                call'.log[i].c \in SessionCmds
                    => /\ i < Len(call'.log)
                       /\ call'.log[i + 1].c = "log.exception"
                       /\ \E j \in 1..i :
                            /\ call'.log[j].c = "terminate_session"
                            /\ call'.log[j].a = call'.log[i + 1].a
                            /\ \A k \in (j + 1)..i :
                                    call'.log[k].c # "terminate_session"]_vars

\* stop_services returned although the teardown of the first of two sessions
\* failed; the second one was torn down after it.
C4_Witness ==
    /\ call.op = "stop_services"
    /\ call.exc = NoExc
    /\ Attempts(call.log) = <<9, 10>>
    /\ \E i \in Failed(call.log) :
          /\ call.log[i].c \in SessionCmds
          /\ \E j \in (i + 1)..Len(call.log) :
                call.log[j].c = "terminate_session" /\ call.log[j].a = 10

\* ----------------------------------------------------------------- C5 --
\* The commands of get_droid and of ed.start().
NegotiationCmds == {"is_port_available", "get_available_host_port",
                    "adb.tcp_forward", "Android initiate", "adb.start_sl4a",
                    "Android continue", "ed.start"}

\* C5 as claimed: when start_adb_logcat raises in start_services, the exception
\* propagates, get_droid and ed.start are not attempted, and afterwards no
\* log-capture process is running and the registry is as before.
C5_Original ==
    [][(call'.op = "start_services"
          /\ Has(call'.log, "log Failed to start adb logcat!"))
       => /\ call'.exc # NoExc
          /\ \A i \in DOMAIN call'.log : call'.log[i].c \notin NegotiationCmds
          /\ procs' = {}
          /\ droid_sessions' = droid_sessions]_vars

\* C5 as amended: when start_adb_logcat raises in start_services, the exception
\* propagates, get_droid and ed.start are not attempted, this call has started
\* no log-capture process (the running processes and the capture record are as
\* before the call) and the registry is as before.
C5_NoPartialStart ==
    [][(call'.op = "start_services"
          /\ Has(call'.log, "log Failed to start adb logcat!"))
       => /\ call'.exc # NoExc
          /\ \A i \in DOMAIN call'.log : call'.log[i].c \notin NegotiationCmds
          /\ ~HasOk(call'.log, "start_standing_subprocess")
          /\ procs' = procs
          /\ adb_logcat_process' = adb_logcat_process
          /\ adb_logcat_file_path' = adb_logcat_file_path
          /\ droid_sessions' = droid_sessions]_vars

\* start_services(skip_sl4a=False) failed in start_adb_logcat while a capture
\* of an earlier call was running.
C5_Witness ==
    /\ call.op = "start_services"
    /\ call.arg = 0
    /\ Has(call.log, "log Failed to start adb logcat!")
    /\ call.exc = AndroidDeviceError
    /\ procs # {}

\* ----------------------------------------------------------------- C6 --
\* C6: when get_droid or ed.start fails in start_services after the capture was
\* started, the exception propagates and the capture this call started is
\* still running, recorded in adb_logcat_process and adb_logcat_file_path.
C6_NoRollback ==
    [][(call'.op = "start_services"
          /\ Has(call'.log, "log Failed to start sl4a!"))
       => /\ call'.exc # NoExc
          /\ adb_logcat_process = None
          /\ adb_logcat_process' # None
          /\ adb_logcat_file_path' # NoPath
          /\ procs' = {adb_logcat_process'}
          /\ \E i \in DOMAIN call'.log :
                /\ call'.log[i].c = "start_standing_subprocess"
                /\ call'.log[i].ok
                /\ call'.log[i].a = adb_logcat_process'
          /\ ~Has(call'.log, "stop_standing_subprocess")]_vars

\* start_services failed while negotiating the session, after the capture
\* was started.
C6_Witness ==
    /\ call.op = "start_services"
    /\ Has(call.log, "log Failed to start sl4a!")
    /\ HasOk(call.log, "start_standing_subprocess")
    /\ call.exc # NoExc

\* ----------------------------------------------------------------- C7 --
\* The reboot was made on a device that is not in bootloader mode.
NotBootloader(log) ==
    /\ Len(log) >= 1
    /\ log[1].c = "fastboot.devices"
    /\ log[1].ok
    /\ log[1].a = 0

\* The commands of terminate_all_sessions.
TeardownCmds == SessionCmds \cup {"terminate_session", "log.exception",
                                  "adb.forward --remove"}

\* The step of reboot that the i-th command of its log belongs to: 1 stop the
\* capture, 2 terminate all sessions, 3 adb reboot, 4 wait for boot completion,
\* 5 root adb, 6 negotiate a session, 7 start its dispatcher, 8 restart the
\* capture.
RebootStep(log, i) ==
    LET c == log[i].c
    IN CASE c = "fastboot.devices" -> 0
         [] c = "stop_standing_subprocess" -> 1
         [] c \in TeardownCmds -> 2
         [] c = "adb.reboot" -> 3
         [] c \in {"getprop sys.boot_completed", "timeout"} -> 4
         [] c = "adb.wait_for_device" ->
                IF i > 1 /\ log[i - 1].c = "adb.root" THEN 5 ELSE 4
         [] c = "adb.root" -> 5
         [] c = "ed.start" -> 7
         [] c \in NegotiationCmds -> 6
         [] OTHER -> 8

\* Command c succeeded (with result a) in a step of reboot before step k.
DoneBefore(log, k, c, a) ==
    \E j \in DOMAIN log :
        /\ log[j].c = c
        /\ log[j].ok
        /\ log[j].a = a
        /\ RebootStep(log, j) < k

\* C7: the commands of a reboot of a device that is not in bootloader mode
\* come in the order of its steps, and a step is begun only after the one
\* before it completed: the capture is stopped exactly when it was active, all
\* registered sessions are terminated before adb reboot, boot completion is
\* read before adb is rooted and a session negotiated, the session is
\* registered before its dispatcher is started, and the capture is restarted
\* last and only if it had been active.
C7_RebootOrder ==
    [][(call'.op = "reboot" /\ NotBootloader(call'.log))
       => LET log == call'.log
              reached == RebootStep(log, Len(log))
              was_on == adb_logcat_process # None
          IN /\ \A i \in 1..(Len(log) - 1) :
                    RebootStep(log, i) <= RebootStep(log, i + 1)
             /\ was_on <=> Has(log, "stop_standing_subprocess")
             /\ (was_on /\ reached >= 2)
                    => DoneBefore(log, 2, "stop_standing_subprocess",
                                  adb_logcat_process)
             /\ reached >= 3
                    => Attempts(log) = SortedInts(DOMAIN droid_sessions)
             /\ reached >= 4 => DoneBefore(log, 4, "adb.reboot", 0)
             /\ reached >= 5
                    => DoneBefore(log, 5, "getprop sys.boot_completed", 1)
             /\ reached >= 6
                    => /\ DoneBefore(log, 6, "adb.root", 0)
                       /\ \E j \in DOMAIN log :
                            /\ log[j].c = "adb.wait_for_device"
                            /\ log[j].ok
                            /\ RebootStep(log, j) = 5
             /\ reached >= 7
                    => \E u \in UIDs : DoneBefore(log, 7, "Android initiate", u)
             /\ reached >= 8
                    => /\ DoneBefore(log, 8, "ed.start", 0)
                       /\ was_on]_vars

\* A reboot that went through all of its steps, with a session to terminate
\* and a capture to restart.
C7_Witness ==
    /\ call.op = "reboot"
    /\ NotBootloader(call.log)
    /\ call.exc = NoExc
    /\ Has(call.log, "terminate_session")
    /\ HasOk(call.log, "stop_standing_subprocess")
    /\ HasOk(call.log, "start_standing_subprocess")

\* ----------------------------------------------------------------- C8 --
\* The call returned a session that is registered, with its dispatcher started.
ServicesRunning ==
    LET d == call.ret.droid
    IN /\ d.uid \in DOMAIN droid_sessions
       /\ droid_sessions[d.uid] = <<d>>
       /\ call.ret.ed = ed_key(d.uid)
       /\ call.ret.ed \in DOMAIN event_dispatchers
       /\ event_dispatchers[call.ret.ed].started

\* C8 as claimed: a reboot of a device that is not in bootloader mode returns
\* with services running or aborts because the wait for boot completion timed
\* out.
C8_Original ==
    (call.op = "reboot" /\ NotBootloader(call.log))
        => \/ call.exc = NoExc /\ ServicesRunning
           \/ call.exc = TimeoutError

\* C8 as amended: a reboot of a device that is not in bootloader mode returns
\* with services running, or it raises: the timeout of the wait for boot
\* completion, or the failure of any other command of it, which is then the
\* last command it ran (a refused uid, SL4AException, comes after the agent's
\* answer); it never returns normally without the session and its dispatcher.
C8_RebootOutcome ==
    (call.op = "reboot" /\ NotBootloader(call.log))
        => LET last == call.log[Len(call.log)]
           IN /\ call.exc = NoExc => ServicesRunning
              /\ call.exc = TimeoutError <=> last.c = "timeout"
              /\ call.exc \notin {NoExc, SL4AException} => ~last.ok
              /\ call.exc = SL4AException
                    => last.c = "Android initiate" /\ last.ok
                        /\ last.a \in DOMAIN droid_sessions

\* A reboot that aborted after the sessions were terminated, and not by the
\* timeout.
C8_Witness ==
    /\ call.op = "reboot"
    /\ NotBootloader(call.log)
    /\ call.exc = AdbError
    /\ Has(call.log, "terminate_session")
    /\ droid_sessions = <<>>

\* ----------------------------------------------------------------- C9 --
\* C9: after clean_up returns, the device has no running log-capture process
\* and no active port-forwarding mapping.
C9_CleanUpReleases ==
    (call.op = "clean_up" /\ call.exc = NoExc)
        => procs = {} /\ forwards = {}

C11_UnknownSessionFails ==
    [][(call'.op = "terminate_session"
          /\ call'.arg \notin DOMAIN droid_sessions)
       => /\ call'.exc = DoesNotExistError
          /\ UNCHANGED <<droid_sessions, event_dispatchers>>]_vars

\* ---------------------------------------------------------------- C12 --
\* C12: a successful add_new_connection_to_session(session_id) appends the new
\* connection to the registry entry of session_id, after the connections the
\* entry had.
C12_ConnectionAppended ==
    [][(call'.op = "add_new_connection_to_session" /\ call'.exc = NoExc)
       => /\ call'.arg \in DOMAIN droid_sessions
          /\ droid_sessions' =
                [droid_sessions EXCEPT ![call'.arg] = Append(@, call'.ret.droid)]
      ]_vars

\* ---------------------------------------------------------------- C13 --
\* C13: after any sequence of calls, failed ones included, every entry of
\* _event_dispatchers belongs to a session that is still in _droid_sessions.
C13_DispatcherHasSession ==
    \A k \in DOMAIN event_dispatchers :
        \E u \in DOMAIN droid_sessions : k = ed_key(u)

\* ---------------------------------------------------------------- C14 --
\* The valid-timestamp lines of the capture file are in non-decreasing order
\* of their timestamps.
SortedCapture ==
    \A i, j \in DOMAIN logcat_file :
        (i < j /\ logcat_file[i].ts # Invalid /\ logcat_file[j].ts # Invalid)
            => logcat_file[i].ts <= logcat_file[j].ts

\* The end of the window of a cat_adb_log call: the time it read.
EndTime(log) ==
    (CHOOSE e \in {log[i] : i \in DOMAIN log} : e.c = "get_log_line_timestamp").a

\* C14: for a capture file whose valid-timestamp lines are in non-decreasing
\* order, cat_adb_log writes exactly the lines with a valid timestamp t such
\* that begin_time <= t <= end_time, in their order in the file, each ended
\* by a newline; with no such line it writes nothing and raises nothing.
C14_WindowExtracted ==
    (call.op = "cat_adb_log" /\ call.exc = NoExc /\ SortedCapture)
        => LET InWindow(line) == /\ line.ts # Invalid
                                 /\ call.arg <= line.ts
                                 /\ line.ts <= EndTime(call.log)
               want == SelectSeq(logcat_file, InWindow)
           IN call.out.lines = [i \in DOMAIN want |-> [want[i] EXCEPT !.nl = TRUE]]

\* An excerpt of a capture with a line before the window, one in it and one
\* after it.
C14_Witness ==
    /\ call.op = "cat_adb_log"
    /\ call.exc = NoExc
    /\ SortedCapture
    /\ Len(logcat_file) = 3
    /\ logcat_file[1].ts # Invalid /\ logcat_file[1].ts < call.arg
    /\ Len(call.out.lines) = 1
    /\ call.out.lines[1].n = 2
    /\ logcat_file[3].ts > EndTime(call.log)

\* ---------------------------------------------------------------- C15 --
\* C15: the name of the excerpt file that cat_adb_log writes is at most
\* MAX_FILENAME_LEN characters long.
C15_ExcerptNameFits ==
    (call.op = "cat_adb_log" /\ call.out # NoFile)
        => Len(call.out.name) <= MAX_FILENAME_LEN

\* ---------------------------------------------------------------- C16 --
\* C16: the file name under which take_bug_report stores the report, the last
\* component of the path it passes to adb, with its spaces escaped, is at most
\* MAX_FILENAME_LEN characters long.
C16_ReportNameFits ==
    (call.op = "take_bug_report" /\ call.exc = NoExc)
        => Len(call.out.name) <= MAX_FILENAME_LEN

\* ---------------------------------------------------------------- C17 --
\* C17: after start_services(skip_sl4a=False) returns, the dispatcher of the
\* session that this call negotiated is started, and the dispatchers that
\* were registered before the call are as they were.
C17_OwnDispatcherStarted ==
    [][(call'.op = "start_services" /\ call'.arg = 0 /\ call'.exc = NoExc)
       => /\ \A u \in DOMAIN droid_sessions' \ DOMAIN droid_sessions :
                /\ ed_key(u) \in DOMAIN event_dispatchers'
                /\ event_dispatchers'[ed_key(u)].started
          /\ \A k \in DOMAIN event_dispatchers :
                /\ k \in DOMAIN event_dispatchers'
                /\ event_dispatchers'[k] = event_dispatchers[k]]_vars

\* ---------------------------------------------------------------- C18 --
\* C18: after reboot returns normally on a device that is not in bootloader
\* mode, log capture is active if and only if it was active when reboot was
\* called; a capture that is active again runs in a new process that
\* adb_logcat_process names.
C18_CaptureRestored ==
    [][(call'.op = "reboot" /\ call'.exc = NoExc /\ NotBootloader(call'.log))
       => /\ (adb_logcat_process' # None) <=> (adb_logcat_process # None)
          /\ adb_logcat_process' # None
                => /\ procs' = {adb_logcat_process'}
                   /\ HasOk(call'.log, "stop_standing_subprocess")
                   /\ HasOk(call'.log, "start_standing_subprocess")
          /\ adb_logcat_process' = None => procs' = procs]_vars

\* A reboot that returned on a device whose capture was active.
C18_Witness ==
    /\ call.op = "reboot"
    /\ call.exc = NoExc
    /\ NotBootloader(call.log)
    /\ adb_logcat_process # None
    /\ HasOk(call.log, "stop_standing_subprocess")
    /\ HasOk(call.log, "start_standing_subprocess")

\* ---------------------------------------------------------------- C19 --
\* C19: clean_up issues the remove-forwarding command only for a host port
\* that has an active mapping of the device: one that was established and
\* that this call did not remove already.
C19_RemoveOnlyActive ==
    [][call'.op = "clean_up"
       => \A i \in DOMAIN call'.log :
            call'.log[i].c = "adb.forward --remove"
                => /\ call'.log[i].a \in forwards
                   /\ \A j \in 1..(i - 1) :
                        ~(/\ call'.log[j].c = "adb.forward --remove"
                          /\ call'.log[j].a = call'.log[i].a
                          /\ call'.log[j].ok)]_vars

\* ---------------------------------------------------------------- C20 --
\* C20: terminate_session(uid) on a registered session, when no close
\* operation fails, removes the registry entry of uid and its dispatcher and
\* nothing else; called right after the session and its dispatcher were
\* opened on a device without sessions, it leaves _droid_sessions and
\* _event_dispatchers with zero entries.
C20_OpenThenClose ==
    [][(call'.op = "terminate_session"
          /\ call'.exc = NoExc
          /\ call'.arg \in DOMAIN droid_sessions)
       => /\ droid_sessions' = Drop(droid_sessions, call'.arg)
          /\ event_dispatchers' = Drop(event_dispatchers, ed_key(call'.arg))
          /\ (/\ DOMAIN droid_sessions = {call'.arg}
              /\ DOMAIN event_dispatchers \subseteq {ed_key(call'.arg)})
                => droid_sessions' = <<>> /\ event_dispatchers' = <<>>]_vars

\* A session and its dispatcher were closed and the registries are empty.
C20_Witness ==
    /\ call.op = "terminate_session"
    /\ call.exc = NoExc
    /\ HasOk(call.log, "close")
    /\ HasOk(call.log, "ed.clean_up")
    /\ droid_sessions = <<>>
    /\ event_dispatchers = <<>>

\* ---------------------------------------------------------------- C21 --
\* C21: add_new_connection_to_session with a session id that is not in
\* _droid_sessions raises DoesNotExistError without asking the agent for a
\* connection and without changing the registry.
C21_UnknownSessionRefused ==
    [][(call'.op = "add_new_connection_to_session"
          /\ call'.arg \notin DOMAIN droid_sessions)
       => /\ call'.exc = DoesNotExistError
          /\ call'.log = <<>>
          /\ UNCHANGED <<droid_sessions, event_dispatchers>>]_vars

\* A connection was asked for a session that is registered under no uid, on a
\* device that has another session.
C21_Witness ==
    /\ call.op = "add_new_connection_to_session"
    /\ call.exc = DoesNotExistError
    /\ call.arg \notin DOMAIN droid_sessions
    /\ droid_sessions # <<>>

\* ---------------------------------------------------------------- C22 --
\* C22: a session has at most one dispatcher.  get_dispatcher for a session
\* that has one returns it, asks the agent for nothing and leaves
\* _event_dispatchers as it is; for a registered session without one it opens
\* one secondary connection and stores one new dispatcher bound to it.
C22_OneDispatcher ==
    [][call'.op = "get_dispatcher"
       => LET k == ed_key(call'.arg)
          IN /\ k \in DOMAIN event_dispatchers
                => /\ call'.exc = NoExc
                   /\ call'.ret.ed = k
                   /\ call'.log = <<>>
                   /\ event_dispatchers' = event_dispatchers
             /\ (k \notin DOMAIN event_dispatchers /\ call'.exc = NoExc)
                => /\ call'.ret.ed = k
                   /\ call'.log = <<Ev("Android continue", call'.arg, TRUE)>>
                   /\ DOMAIN event_dispatchers' = DOMAIN event_dispatchers \cup {k}
                   /\ \A j \in DOMAIN event_dispatchers :
                        event_dispatchers'[j] = event_dispatchers[j]
                   /\ event_dispatchers'[k].droid.uid = call'.arg]_vars

\* get_dispatcher returned the dispatcher that a session already had.
C22_Witness ==
    /\ call.op = "get_dispatcher"
    /\ call.exc = NoExc
    /\ call.log = <<>>
    /\ call.ret.ed = ed_key(call.arg)
    /\ call.arg \in DOMAIN droid_sessions
    /\ call.ret.ed \in DOMAIN event_dispatchers

\* ---------------------------------------------------------------- C23 --
\* C23: start_adb_logcat called while a capture is active raises
\* AndroidDeviceError, runs no command, and leaves adb_logcat_process,
\* adb_logcat_file_path and the running processes as they were.
C23_SecondStartRefused ==
    [][(call'.op = "start_adb_logcat" /\ adb_logcat_process # None)
       => /\ call'.exc = AndroidDeviceError
          /\ call'.log = <<>>
          /\ UNCHANGED <<adb_logcat_process, adb_logcat_file_path, procs>>]_vars

\* A second start was refused and the capture still runs.
C23_Witness ==
    /\ call.op = "start_adb_logcat"
    /\ call.exc = AndroidDeviceError
    /\ adb_logcat_process # None
    /\ procs = {adb_logcat_process}
    /\ adb_logcat_file_path # NoPath

\* ---------------------------------------------------------------- C24 --
\* C24: after start_adb_logcat and stop_adb_logcat, start_adb_logcat is not
\* refused, and when the commands it runs succeed it succeeds and exactly one
\* capture process runs afterwards, the one adb_logcat_process names.
C24_RestartSucceeds ==
    /\ (call.op = "stop_adb_logcat after start" /\ call.exc = NoExc)
            => adb_logcat_process = None /\ procs = {}
    /\ call.op = "start_adb_logcat after stop"
            => /\ call.exc # AndroidDeviceError
               /\ Failed(call.log) = {}
                    => /\ call.exc = NoExc
                       /\ adb_logcat_process # None
                       /\ procs = {adb_logcat_process}

\* The capture was started again after it had been stopped.
C24_Witness ==
    /\ call.op = "start_adb_logcat after stop"
    /\ call.exc = NoExc
    /\ procs = {adb_logcat_process}

\* ---------------------------------------------------------------- C25 --
\* C25: cat_adb_log raises AndroidDeviceError exactly when no capture file
\* path is on record; after start_adb_logcat and stop_adb_logcat the path is
\* still on record, the process handle is cleared, and cat_adb_log does not
\* raise it.
C25_FailsWithoutPath ==
    /\ call.op \in {"cat_adb_log", "cat_adb_log after stop"}
            => (call.exc = AndroidDeviceError <=> adb_logcat_file_path = NoPath)
    /\ call.op = "cat_adb_log after stop"
            => /\ call.exc # AndroidDeviceError
               /\ adb_logcat_file_path = f_name(product)
               /\ adb_logcat_process = None

\* An excerpt was taken after the capture had been stopped.
C25_Witness ==
    /\ call.op = "cat_adb_log after stop"
    /\ call.exc = NoExc
    /\ adb_logcat_process = None
    /\ call.out.lines # <<>>

\* ---------------------------------------------------------------- C26 --
\* Line i of the capture file has a valid timestamp in the window of the call.
InWindowLine(i) ==
    /\ logcat_file[i].ts # Invalid
    /\ call.arg <= logcat_file[i].ts
    /\ logcat_file[i].ts <= EndTime(call.log)

\* Line i has a valid timestamp outside the window and follows a line in it.
LeavesWindow(i) ==
    /\ logcat_file[i].ts # Invalid
    /\ ~InWindowLine(i)
    /\ \E j \in 1..(i - 1) : InWindowLine(j)

\* C26: cat_adb_log writes no line of the capture file that stands at or
\* after the first valid-timestamp line outside the window that follows an
\* in-window line, even a line whose timestamp is inside the window.
C26_StopsAfterWindow ==
    (call.op = "cat_adb_log" /\ call.exc = NoExc)
        => \A i \in DOMAIN logcat_file :
              LeavesWindow(i)
                  => \A k \in DOMAIN call.out.lines : call.out.lines[k].n < i

\* A capture with a line in the window, one outside it and one in it again,
\* of which only the first was written.
C26_Witness ==
    /\ call.op = "cat_adb_log"
    /\ call.exc = NoExc
    /\ Len(logcat_file) = 3
    /\ InWindowLine(1)
    /\ LeavesWindow(2)
    /\ InWindowLine(3)
    /\ Len(call.out.lines) = 1
    /\ call.out.lines[1].n = 1

\* ---------------------------------------------------------------- C27 --
\* C27: cat_adb_log writes no line without a valid timestamp, and such a line
\* does not end the scan: every in-window line that no valid out-of-window
\* line following an in-window line precedes is written, whatever lines
\* without a valid timestamp stand before it.
C27_InvalidLinesSkipped ==
    (call.op = "cat_adb_log" /\ call.exc = NoExc)
        => /\ \A k \in DOMAIN call.out.lines : call.out.lines[k].ts # Invalid
           /\ \A j \in DOMAIN logcat_file :
                 (InWindowLine(j) /\ \A i \in 1..(j - 1) : ~LeavesWindow(i))
                     => \E k \in DOMAIN call.out.lines : call.out.lines[k].n = j

\* A capture whose second line has no valid timestamp, after a first line in
\* the window or before it, and whose third line, in the window, was written.
C27_Witness ==
    /\ call.op = "cat_adb_log"
    /\ call.exc = NoExc
    /\ Len(logcat_file) = 3
    /\ logcat_file[2].ts = Invalid
    /\ InWindowLine(3)
    /\ logcat_file[1].ts # Invalid
    /\ Len(call.out.lines) = IF InWindowLine(1) THEN 2 ELSE 1
    /\ call.out.lines[Len(call.out.lines)].n = 3

\* ---------------------------------------------------------------- C28 --
\* Event i of the log is the command that makes the device dump its state.
DumpCmd(log, i) == log[i].c \in {"adb.shell bugreportz", "adb.bugreport"}

\* Event i of the log is a poll of sys.boot_completed.
BootPoll(log, i) == log[i].c = "getprop sys.boot_completed"

\* Event i of the log is a poll that read sys.boot_completed as '1'.
BootRead(log, i) == BootPoll(log, i) /\ log[i].a = 1 /\ log[i].ok

C29_IdleStopIsNoOp ==
    [][(/\ call = Idle
        /\ call'.op = "stop_services"
        /\ adb_logcat_process = None
        /\ DOMAIN droid_sessions = {})
            => /\ call'.exc = NoExc
               /\ call'.log = <<>>
               /\ UNCHANGED <<h_port, droid_sessions, event_dispatchers,
                              adb_logcat_process, adb_logcat_file_path,
                              forwards, procs, product, logcat_file>>]_vars

\* stop_services returned without a command on a device that keeps a host
\* port and the path of an earlier capture.
C29_Witness ==
    /\ call.op = "stop_services"
    /\ call.exc = NoExc
    /\ call.log = <<>>
    /\ h_port # None
    /\ adb_logcat_file_path # NoPath

\* ---------------------------------------------------------------- C30 --
\* The serials the configs of a create call name.
ConfiguredSerials(configs) ==
    IF configs.kind = "serials"
    THEN {configs.items[i] : i \in DOMAIN configs.items}
    ELSE IF configs.kind = "dicts"
    THEN {configs.items[i].serial : i \in DOMAIN configs.items} \ {None}
    ELSE {}

\* The serial of the device object the last constructor call of the log built.
LastBuilt(log) ==
    LET ctors == {i \in DOMAIN log : log[i].c = "AndroidDevice"}
    IN IF ctors = {} THEN None
       ELSE log[CHOOSE i \in ctors : \A j \in ctors : j <= i].a

\* The only commands of the call that failed are adb commands for a device
\* that is not attached.
OnlyAbsentDeviceFails ==
    \A i \in Failed(call.log) :
        /\ call.log[i].c \in {"adb.root", "adb.wait_for_device"}
        /\ LastBuilt(SubSeq(call.log, 1, i)) \notin call.arg.attached

\* C30: create called with configs that name a serial adb does not list as
\* attached raises DoesNotExistError and calls start_services on no device.
C30_AbsentSerialRefused ==
    (/\ call.op = "create"
     /\ ConfiguredSerials(call.arg.configs) \ call.arg.attached # {}
     /\ OnlyAbsentDeviceFails)
        => /\ call.exc = DoesNotExistError
           /\ ~Has(call.log, "start_services")

\* ---------------------------------------------------------------- C31 --
\* The arguments of the events c of the log, in their order.
ArgsOf(log, c) ==
    LET Is(e) == e.c = c
        evs == SelectSeq(log, Is)
    IN [i \in DOMAIN evs |-> evs[i].a]

\* What _start_services_on_ads logs when start_services raised.
AbortMsg == "log Failed to start some services, abort!"
AbortAt(log) == CHOOSE i \in DOMAIN log : log[i].c = AbortMsg

\* No device that call.ret lists has a capture running or a session registered.
NothingRunning ==
    \A i \in DOMAIN call.ret.ads :
        /\ call.ret.ads[i].adb_logcat_process = None
        /\ DOMAIN call.ret.ads[i].droid_sessions = {}

\* start_services was called on the first devices of the list, up to the one
\* that failed, clean_up on the same devices, and the exception went on.
AbortedInOrder ==
    LET started == ArgsOf(call.log, "start_services")
    IN /\ call.exc # NoExc
       /\ started = SubSeq(call.ret.sers, 1, Len(started))
       /\ ArgsOf(call.log, "clean_up") = started

C35_DestroyCleansAll ==
    call.op = "destroy"
        => /\ call.exc = NoExc
           /\ ArgsOf(call.log, "clean_up") = call.ret.sers

\* clean_up of the first of two devices raised and the second was cleaned up.
C35_Witness ==
    /\ call.op = "destroy"
    /\ Len(call.ret.sers) = 2
    /\ \E i \in DOMAIN call.log :
          /\ call.log[i].c = "log Failed to clean up properly."
          /\ call.log[i].a = call.ret.sers[1]
          /\ call.log[i + 1].c = "clean_up"
          /\ call.log[i + 1].a = call.ret.sers[2]
    /\ call.ret.ads[2].adb_logcat_process = None

\* ---------------------------------------------------------------- C32 --
\* The places of the events c in the log.
PlacesOf(log, c) == {i \in DOMAIN log : log[i].c = c}

\* C32: get_droid asks the agent for a new session at most twice.  When the
\* first start_new_session fails (the agent does not answer, or it issues a
\* uid that is registered), get_droid restarts the agent once, right after
\* it, and, the restart done, asks once more; it restarts the agent in no
\* other case.  When the second start_new_session fails as well, get_droid
\* raises and the sessions and dispatchers are those of before the call.
C32_OneRetry ==
    [][(call = Idle /\ call'.op = "get_droid")
        => LET log == call'.log
               inits == PlacesOf(log, "Android initiate")
               restarts == PlacesOf(log, "adb.start_sl4a")
               FailedInit(i) == ~log[i].ok \/ log[i].a \in DOMAIN droid_sessions
           IN /\ Cardinality(inits) <= 2
              /\ Cardinality(restarts) <= 1
              /\ \A i \in inits :
                    (\A j \in inits : i <= j)
                        => /\ FailedInit(i) <=> restarts = {i + 1}
                           /\ ~FailedInit(i) => inits = {i}
              /\ \A r \in restarts :
                    IF log[r].ok
                    THEN inits = {r - 1, r + 1}
                    ELSE inits = {r - 1} /\ call'.exc = AdbError
              /\ \A i \in inits :
                    (Cardinality(inits) = 2 /\ (\A j \in inits : j <= i)
                        /\ FailedInit(i))
                        => /\ call'.exc # NoExc
                           /\ droid_sessions' = droid_sessions
                           /\ event_dispatchers' = event_dispatchers]_vars

\* get_droid raised after the agent, restarted, failed a second time, on a
\* device with a session of an earlier call.
C32_Witness ==
    /\ call.op = "get_droid"
    /\ call.exc # NoExc
    /\ Cardinality(PlacesOf(call.log, "Android initiate")) = 2
    /\ HasOk(call.log, "adb.start_sl4a")
    /\ call.log[Len(call.log)].c = "Android initiate"
    /\ ~call.log[Len(call.log)].ok
    /\ DOMAIN droid_sessions # {}

\* ---------------------------------------------------------------- C33 --
\* C33: while get_droid runs on the threads of two devices, no two devices
\* that have set up their forwarding hold the same host port in h_port.
C33_UniqueHostPorts ==
    call.op = "get_droid threads"
        => \A d, e \in Threads :
              (/\ d # e
               /\ call.ret.pc[d] \in {"session", "done"}
               /\ call.ret.pc[e] \in {"session", "done"})
                    => call.ret.ads[d].h_port # call.ret.ads[e].h_port

\* ---------------------------------------------------------------- C34 --
\* Every dispatcher of the device belongs to a session that is registered.
DispatchersHaveSessions ==
    \A k \in DOMAIN event_dispatchers :
        \E uid \in DOMAIN droid_sessions : k = ed_key(uid)

\* C34: in every state of the device whose dispatchers all belong to
\* registered sessions, eds[i] is, for every index i of eds, the dispatcher
\* registered for the session of droids[i].
C34_EdsAligned ==
    DispatchersHaveSessions
        => LET ds == droids(Enter)
               es == eds(Enter)
           IN \A i \in DOMAIN es :
                 /\ i \in DOMAIN ds
                 /\ ed_key(ds[i].uid) \in DOMAIN event_dispatchers
                 /\ es[i] = event_dispatchers[ed_key(ds[i].uid)]

\* ---------------------------------------------------------------- C36 --
\* C36: terminate_all_sessions, called on a device whose h_port names an
\* active forwarding, leaves h_port and that forwarding as they are whenever
\* a session is still registered when it ends.
C36_ForwardKeptWithSessions ==
    [][(/\ call = Idle
        /\ call'.op = "terminate_all_sessions"
        /\ h_port # None
        /\ h_port \in forwards
        /\ DOMAIN droid_sessions' # {})
            => /\ h_port' = h_port
               /\ h_port \in forwards']_vars

\* ---------------------------------------------------------------- C37 --
\* The places of the log of attach where the phone was given the time to
\* register: one per attach attempt.
AttachAttempts(log) == PlacesOf(log, "wait_for_registration_state")

\* Airplane mode is switched on after place i of the log, before any other
\* attempt.
AirplaneOnAfter(log, i) ==
    \E j \in DOMAIN log :
        /\ j > i
        /\ log[j].c = "toggle_airplane_mode"
        /\ log[j].a = 1
        /\ \A k \in (i + 1)..(j - 1) :
              log[k].c \notin {"toggle_airplane_mode",
                               "wait_for_registration_state"}

\* A level of the base station is written after place i of the log.
LevelWrittenAfter(log, i) ==
    \E j \in DOMAIN log :
        j > i /\ log[j].c \in {"output_level", "input_level"}

\* C37: attach makes at least one and at most ATTACH_MAX_RETRIES attempts; no
\* attempt follows one that registered; it returns True when its last attempt
\* registered and False when all ATTACH_MAX_RETRIES attempts failed; after
\* every failed attempt airplane mode is switched on before the next attempt
\* or the return; when it returns False no level is written once the attempts
\* have begun and airplane mode is on.
C37_AttachRetries ==
    call.op = "attach"
        => LET log == call.log
               tries == AttachAttempts(log)
               failed == {i \in tries : ~log[i].ok}
           IN  /\ Cardinality(tries) \in 1..ATTACH_MAX_RETRIES
               /\ \A i \in tries : log[i].ok => \A j \in tries : j <= i
               /\ call.ret.value = (tries # failed)
               /\ ~call.ret.value
                      <=> (failed = tries
                           /\ Cardinality(tries) = ATTACH_MAX_RETRIES)
               /\ \A i \in failed : AirplaneOnAfter(log, i)
               /\ ~call.ret.value
                      => /\ \A i \in tries : ~LevelWrittenAfter(log, i)
                         /\ sim.airplane
               /\ call.exc = NoExc

\* attach has returned False after ATTACH_MAX_RETRIES failed attempts on a
\* simulation with both signal levels configured.
C37_Witness ==
    /\ call.op = "attach"
    /\ ~call.ret.value
    /\ Cardinality(AttachAttempts(call.log)) = ATTACH_MAX_RETRIES
    /\ Truthy(sim.sim_dl_power)
    /\ Truthy(sim.sim_ul_power)
    /\ sim.output_level = -30
    /\ sim.input_level = -10

\* ---------------------------------------------------------------- C38 --
\* What attach, the two calibrations and detach leave in the log.
CalibrationSteps ==
    {"toggle_airplane_mode", "wait_for_registration_state",
     "get_telephony_signal_strength", "MONITOR? UL_PUSCH",
     "set_simulation_state_to_poweroff"}

\* C38: calibrate on a simulation whose dl_path_loss and ul_path_loss are
\* both measured performs no attach, no measurement and no detach, and leaves
\* both values as they are.
C38_CalibratedIsNoOp ==
    [][(/\ call = Idle
        /\ call'.op = "calibrate"
        /\ Truthy(sim.dl_path_loss)
        /\ Truthy(sim.ul_path_loss))
            => /\ \A i \in DOMAIN call'.log :
                      call'.log[i].c \notin CalibrationSteps
               /\ sim'.dl_path_loss = sim.dl_path_loss
               /\ sim'.ul_path_loss = sim.ul_path_loss]_vars

\* ---------------------------------------------------------------- C39 --
\* C39: after set_downlink_rx_power the output level of bts1 is at most
\* DOWNLINK_MAX_POWER of the callbox version, with or without a measured
\* dl_path_loss.
C39_OutputLevelBelowMax ==
    call.op = "set_downlink_rx_power"
        => sim.output_level <= DOWNLINK_MAX_POWER[sim.version]
====
